---- MODULE Spec2Model ----
(***************************************************************************)
(* UPnP volume control: the controller's registry / selection / retry      *)
(* state machine (src/src/upnp_volume_control.py) over the device profiles *)
(* (src/src/device_profiles.py).                                           *)
(*                                                                         *)
(* Representation.                                                         *)
(*  - A Device handle is identified with the physical device it proxies    *)
(*    ("D1".."D4"); each device has fixed metadata (friendly name, the     *)
(*    profile class whose matcher accepts it, where its RenderingControl   *)
(*    service lives, whether it exposes GroupRenderingControl).            *)
(*  - `devices` is the Python dict self.devices, name -> (device, profile  *)
(*    instance); `order` is its key insertion order (a dict keeps the      *)
(*    position of a key whose value is overwritten).                       *)
(*  - self.current_profile is a reference.  It is either absent, or the    *)
(*    very instance the registry holds under a name (k = "reg"), or an     *)
(*    instance the registry does not hold (k = "own", with that instance's *)
(*    fields).  Overwriting a registry entry creates a new instance; a     *)
(*    reference to the replaced one keeps the replaced one.                *)
(*  - Numeric volume values are not tracked here: a reading is either      *)
(*    absent or present, and whether the device already sits at the        *)
(*    target value is a choice of the environment.  handle_volume_up and   *)
(*    handle_volume_down differ in the sign of the step only and are one   *)
(*    action.                                                              *)
(*  - The answers of the network (discovery result, device replies) are    *)
(*    inputs of each operation, drawn with \E.                             *)
(*  - `fx` is the trace of externally visible effects of the operation     *)
(*    that just ran (discovery runs, writes on devices, SUBSCRIBE          *)
(*    requests, observer calls, settings writes); `lastOp` names that      *)
(*    operation, its argument and its result.  Operations run one at a     *)
(*    time: the caller takes the result (Return) before the next starts.   *)
(*  - The settings file write in save_settings is taken to succeed, and    *)
(*    friendly names are non-empty strings.                                *)
(***************************************************************************)
EXTENDS Integers, Sequences, FiniteSets, TLC

\* ---------------------------------------------------------------- bounds
\* longest discovery result (number of device handles in one pass)
MaxPass == 2
\* scaled-down interpreter recursion limit: nesting depth at which a further
\* self-call of volume_down raises RecursionError
MaxDepth == 3
\* most select_device registrations kept on one profile instance
MaxListen == 2
\* most observers per callback list
MaxObs == 1

\* ------------------------------------------------------- device universe
None == "None"
Devs == {"D1", "D2", "D3", "D4"}

\* device.friendly_name ("D1" and "D3" carry the same display name)
FriendlyName(d) ==
    CASE d = "D1" -> "A"
      [] d = "D2" -> "B"
      [] d = "D3" -> "A"
      [] OTHER    -> "C"

Names == {FriendlyName(d) : d \in Devs}

\* RenderingControl among the device's own services
OwnRC(d) == d \in {"D1"}
\* RenderingControl among the services of an embedded device (depth 1)
ChildRC(d) == d \in {"D2", "D3", "D5"}
\* the device exposes GroupRenderingControl
HasGroup(d) == d \in {"D2"}
\* 'sonos' / 'yamaha' in manufacturer or friendly name ("D1" has its own
\* RenderingControl service and a Sonos manufacturer string; "D5" is a Sonos
\* device without GroupRenderingControl, which only the volume layer uses)
IsSonos(d) == d \in {"D1", "D2", "D5"}
IsYamaha(d) == d = "D3"
\* 'denon' in device type, manufacturer or friendly name
IsDenonNamed(d) == FALSE

\* DenonProfile.matches: device type, own RenderingControl service,
\* manufacturer, friendly name
DenonMatches(d) == IsDenonNamed(d) \/ OwnRC(d)

\* get_device_profile mutant: the chain is walked from its last class
GetDeviceProfile_LastFirst(d) ==
    IF IsYamaha(d) THEN "Yamaha"
    ELSE IF IsSonos(d) THEN "Sonos"
    ELSE IF DenonMatches(d) THEN "Denon"
    ELSE None

\* get_device_profile: first class of DEVICE_PROFILES whose matches() holds
GetDeviceProfile(d) ==
    IF DenonMatches(d) THEN "Denon"
    ELSE IF IsSonos(d) THEN "Sonos"
    ELSE IF IsYamaha(d) THEN "Yamaha"
    ELSE None

\* a device reference as the controller holds it: a Device handle, or (after
\* the automatic selection of refresh_devices) a bare friendly-name string
DevRef(d) == [k |-> "dev", v |-> d]
NameRef(n) == [k |-> "name", v |-> n]
NoRef == [k |-> "none", v |-> None]

\* DeviceProfile.get_rendering_control: own services, then children; a str
\* has neither attribute, so no service is found
GetRenderingControl(ref) ==
    ref.k = "dev" /\ (OwnRC(ref.v) \/ ChildRC(ref.v))

\* ---------------------------------------------------------- environment
\* how GetVolume answers during one operation: a value, the value the next
\* set would write, CurrentVolume = null, no CurrentVolume field, an exception
ReadModes == {"ok", "same", "null", "missing", "raise"}
\* which SetVolume / SetGroupVolume invocations raise during one operation
WriteModes == {"never", "once", "always"}

E(e, a, b) == [e |-> e, a |-> a, b |-> b]
B2S(b) == IF b THEN "T" ELSE "F"

\* an environment threaded through one operation:
\*   rd, wr : the device replies; used : SetVolume invocations so far;
\*   fx : effects so far
Env(rd, wr) ==
    [rd |-> rd, wr |-> wr, used |-> [d \in Devs |-> 0], fx |-> <<>>]

Log(en, ev) == [en EXCEPT !.fx = Append(@, ev)]

\* the next SetVolume on d raises
WriteRaises(en, d) ==
    \/ en.wr[d] = "always"
    \/ en.wr[d] = "once" /\ en.used[d] = 0

Invoke(en, d) == [en EXCEPT !.used[d] = @ + 1]

\* ------------------------------------------------------ device profiles
\* a profile instance: its class, the device it was created for, how many
\* times select_device registered its three listeners on it, and whether a
\* subscription id is stored
NewProfile(d) ==
    [cls |-> GetDeviceProfile(d), dev |-> d, nlisten |-> 0, sid |-> FALSE]

\* UPNPVolumeController._notify_volume_change: every volume observer is called
RECURSIVE NotifyVolumeChange(_, _)
NotifyVolumeChange(en, n) ==
    IF n = 0 THEN en
    ELSE Log(NotifyVolumeChange(en, n - 1), E("volume_cb", ToString(n), ""))

\* DeviceProfile._notify("volume_changed"): every listener select_device
\* registered on the instance runs _notify_volume_change
RECURSIVE ProfileNotify(_, _, _)
ProfileNotify(en, nlisten, nobs) ==
    IF nlisten = 0 THEN en
    ELSE NotifyVolumeChange(ProfileNotify(en, nlisten - 1, nobs), nobs)

\* DeviceProfile.get_volume / DenonProfile.get_volume.  The base class calls
\* self._db_to_percent, which no class defines: every non-null reading ends
\* in the except branch and yields None.
GetVolume(p, ref, en) ==
    IF ~GetRenderingControl(ref) THEN None
    ELSE LET rd == en.rd[ref.v]
         IN  CASE rd = "raise"   -> None
               [] rd = "missing" -> None
               [] rd = "null"    -> "zero"
               [] OTHER -> IF p.cls = "Denon" THEN "val" ELSE None

\* retries = 3 in DenonProfile.set_volume
DenonRetries == 3

\* DenonProfile.set_volume: up to three attempts of read / compare / write /
\* re-read; any exception inside an attempt costs one retry (a null
\* CurrentVolume makes float() raise)
RECURSIVE DenonSetVolume(_, _, _)
DenonSetVolume(ref, en, retries) ==
    IF ~GetRenderingControl(ref) THEN [en |-> en, r |-> FALSE]
    ELSE LET d  == ref.v
             rd == en.rd[d]
             again(e1) == IF retries - 1 > 0
                          THEN DenonSetVolume(ref, e1, retries - 1)
                          ELSE [en |-> e1, r |-> FALSE]
         IN  CASE rd = "raise" -> again(en)
               [] rd = "null"  -> again(en)
               [] rd = "same"  -> [en |-> en, r |-> TRUE]
               [] OTHER ->
                    IF WriteRaises(en, d)
                    THEN again(Log(Invoke(en, d), E("SetVolume", d, "raise")))
                    ELSE [en |-> Log(Invoke(en, d), E("SetVolume", d, "ok")),
                          r |-> TRUE]

\* DeviceProfile.set_volume: one write, no retry
BaseSetVolume(ref, en) ==
    IF ~GetRenderingControl(ref) THEN [en |-> en, r |-> FALSE]
    ELSE LET d == ref.v
         IN  IF WriteRaises(en, d)
             THEN [en |-> Log(Invoke(en, d), E("SetVolume", d, "raise")),
                   r |-> FALSE]
             ELSE [en |-> Log(Invoke(en, d), E("SetVolume", d, "ok")),
                   r |-> TRUE]

\* SonosProfile.set_volume: the group command when the device exposes it,
\* else (or when it raises) the base class path
SonosSetVolume(p, ref, en, nobs) ==
    IF ref.k = "dev" /\ HasGroup(ref.v)
    THEN LET d == ref.v
         IN  IF WriteRaises(en, d)
             THEN BaseSetVolume(ref,
                      Log(Invoke(en, d), E("SetGroupVolume", d, "raise")))
             ELSE [en |-> ProfileNotify(
                              Log(Invoke(en, d), E("SetGroupVolume", d, "ok")),
                              p.nlisten, nobs),
                   r |-> TRUE]
    ELSE BaseSetVolume(ref, en)

\* profile.set_volume(device, volume), dispatched on the profile class
SetVolumeOn(p, ref, en, nobs) ==
    CASE p.cls = "Denon" -> DenonSetVolume(ref, en, DenonRetries)
      [] p.cls = "Sonos" -> SonosSetVolume(p, ref, en, nobs)
      [] OTHER           -> BaseSetVolume(ref, en)

\* DeviceProfile.set_volume_relative: read, clamp, set_volume
SetVolumeRelative(p, ref, en, nobs) ==
    IF GetVolume(p, ref, en) = None THEN [en |-> en, r |-> FALSE]
    ELSE SetVolumeOn(p, ref, en, nobs)

\* DeviceProfile.subscribe_to_events: a SUBSCRIBE request goes out only when
\* the rendering control is found and the instance has _subscription_timeout
\* (only DenonProfile sets it; elsewhere the AttributeError is swallowed);
\* the subscription id is stored on status 200
SubscribeToEvents(p, d, en, subOK) ==
    IF GetRenderingControl(DevRef(d)) /\ p.cls = "Denon"
    THEN [en |-> Log(en, E("SUBSCRIBE", d, B2S(subOK))),
          p  |-> [p EXCEPT !.sid = IF subOK THEN TRUE ELSE @]]
    ELSE [en |-> en, p |-> p]

\* ------------------------------------------------------------ controller
VARIABLES
    devices,            \* self.devices: friendly name -> [dev, prof]
    order,              \* key insertion order of self.devices
    current_device,     \* self.current_device: NoRef, a name or a handle
    current_profile,    \* self.current_profile: a profile reference
    last_used_device,   \* self.last_used_device: a name or None
    settings_file,      \* the persisted last_used_device (None: no file)
    volume_callbacks,   \* len(self._volume_callbacks)
    device_callbacks,   \* len(self._device_callbacks)
    lastOp,             \* the operation that just ran, its argument, result
    fx,                 \* the effects of that operation
    dv,                 \* volume layer: the device and the value it holds
    vop,                \* volume layer: the last operation and its trace
    srv,                \* event server: callback, listening, requests seen
    nop,                \* event server: the last NOTIFY request handled
    xop,                \* exception layer: the last call and its outcome
    race,               \* thread layer: two adjust calls and the device
    conv,               \* converter layer: an input and what it maps to
    disp                \* dispatch layer: one event and who was called

vars ==
    <<devices, order, current_device, current_profile, last_used_device,
      settings_file, volume_callbacks, device_callbacks, lastOp, fx,
      dv, vop, srv, nop, xop, race, conv, disp>>

\* the state of the component-level specifications (VolSpec, EventSpec,
\* ExcSpec, RaceSpec, ConvSpec, DispSpec), which the controller operations of Spec
\* leave alone
unit == <<dv, vop, srv, nop, xop, race, conv, disp>>
NoDevice ==
    [d |-> None, stored |-> 0, n |-> 0, settled |-> [some |-> FALSE, v |-> 0]]
NoVolOp ==
    [op |-> "idle", arg |-> 0, env |-> [rd |-> "ok", wf |-> 0, vf |-> FALSE],
     res |-> FALSE, tr |-> <<>>]
NoServer ==
    [callback |-> "none", listening |-> FALSE, seen |-> 0,
     server |-> "none", thread |-> "none", blocked |-> FALSE]
NoNotify == [op |-> "idle", body |-> "", sendOK |-> TRUE, hf |-> "none",
             status |-> 0,
             tr |-> <<>>, n |-> 0]
NoFaults ==
    [discover |-> FALSE, found |-> FALSE, rd |-> "ok", wr |-> FALSE,
     sub |-> FALSE, obs |-> FALSE, av |-> "absent"]
NoCall ==
    [op |-> "idle",
     ctx |-> [d |-> None, sel |-> "none", reg |-> FALSE, last |-> FALSE],
     f |-> NoFaults,
     out |-> [k |-> "ret", v |-> "None"]]
NoRace == [op |-> "idle", start |-> 0, stored |-> 0, t |-> <<>>]
NoConv == [op |-> "idle", dom |-> "raw", x |-> 0, y |-> 0, x2 |-> 0, y2 |-> 0]
NoDisp == [op |-> "idle", ls |-> <<>>, obs |-> <<>>, vol |-> "absent",
           raw |-> 0, power |-> "absent", input |-> "absent",
           ret |-> FALSE, tr |-> <<>>]

\* profile references
NoFields == [cls |-> None, dev |-> None, nlisten |-> 0, sid |-> FALSE]
NoProfile == [k |-> "none", n |-> None, p |-> NoFields]
RegProfile(n) == [k |-> "reg", n |-> n, p |-> NoFields]
OwnProfile(p) == [k |-> "own", n |-> None, p |-> p]

\* EventServer.start(self._handle_device_event): the callback is stored
\* first; HTTPServer(...) binds and listens, which may fail (and does when
\* a socket of this process still listens on the port), leaving self.server
\* as it was; then the thread that runs serve_forever is started, which may
\* fail too.  Every exception is caught.
StartOp(s, bindOK, threadOK) ==
    LET s1 == [s EXCEPT !.callback = "controller"]
    IN  IF ~bindOK \/ s.server = "open" THEN s1
        ELSE IF ~threadOK
        THEN [s1 EXCEPT !.server = "open", !.thread = "none",
                        !.listening = FALSE]
        ELSE [s1 EXCEPT !.server = "open", !.thread = "serving",
                        !.listening = TRUE]

\* `not self.event_server` in refresh_devices: self.event_server is the
\* EventServer object made in __init__, which defines neither __bool__ nor
\* __len__ and is therefore true
EventServerIsFalsy == FALSE

\* the controller's fields an operation works on, with the environment
World(en) ==
    [devices |-> devices, order |-> order,
     cd |-> current_device, cp |-> current_profile,
     lu |-> last_used_device, sf |-> settings_file, srv |-> srv, en |-> en]

\* `not (self.current_device and self.current_profile)` is false
Selected(w) == w.cd # NoRef /\ w.cp # NoProfile

\* the instance self.current_profile refers to
CurrentProfile(w) ==
    IF w.cp.k = "reg" THEN w.devices[w.cp.n].prof ELSE w.cp.p

\* registry write mutant: the registry is rebuilt from the device at hand
PutDevice_DropOthers(w, name, d, p) ==
    [w EXCEPT
      !.devices = [n \in {name} |-> [dev |-> d, prof |-> p]],
      !.order   = <<name>>,
      !.cp      = IF w.cp.k = "reg"
                  THEN OwnProfile(w.devices[w.cp.n].prof) ELSE @]

\* self.devices[name] = (device, profile): the key keeps its position when
\* it is already present; a self.current_profile that referred to the
\* replaced instance goes on referring to it
PutDevice(w, name, d, p) ==
    [w EXCEPT
      !.devices = [n \in DOMAIN w.devices \cup {name} |->
                     IF n = name THEN [dev |-> d, prof |-> p]
                     ELSE w.devices[n]],
      !.order   = IF name \in DOMAIN w.devices THEN @ ELSE Append(@, name),
      !.cp      = IF w.cp = RegProfile(name)
                  THEN OwnProfile(w.devices[name].prof) ELSE @]

\* the body of the discovery loop of refresh_devices for one device handle:
\* the pair is stored, the event server is started when the guard
\* `if not self.event_server` lets it, the profile subscribes
RefreshOne(st, d, subOK) ==
    IF GetDeviceProfile(d) = None THEN st
    ELSE LET en0 == Log(st.w.en, E("registered", FriendlyName(d), d))
             sub == SubscribeToEvents(NewProfile(d), d, en0, subOK)
             w0  == [st.w EXCEPT
                       !.en = sub.en,
                       !.srv = IF EventServerIsFalsy
                               THEN StartOp(@, TRUE, TRUE) ELSE @]
             w1  == PutDevice(w0, FriendlyName(d), d, sub.p)
         IN  [w |-> w1, valid |-> Append(st.valid, FriendlyName(d))]

RECURSIVE RefreshLoop(_, _, _)
RefreshLoop(st, pass, subOK) ==
    IF pass = <<>> THEN st
    ELSE RefreshLoop(RefreshOne(st, Head(pass), subOK), Tail(pass), subOK)

\* the discovery result that stands for upnpclient.discover raising
DiscoverRaises == <<"raise">>

\* the list upnpclient.discover returned, as the text of its handles in order
RECURSIVE PassName(_)
PassName(pass) ==
    IF pass = <<>> THEN "" ELSE Head(pass) \o PassName(Tail(pass))

\* automatic selection mutant: the `not self.current_device` test is left out
AutoSelect_Always(w, valid) ==
    IF valid # <<>>
    THEN [w EXCEPT !.cd = NameRef(valid[1]), !.cp = RegProfile(valid[1])]
    ELSE w

\* refresh_devices, lines 149-152: the first valid NAME becomes current_device
\* and the profile now stored under that name becomes current_profile
AutoSelect(w, valid) ==
    IF valid # <<>> /\ w.cd = NoRef
    THEN [w EXCEPT !.cd = NameRef(valid[1]), !.cp = RegProfile(valid[1])]
    ELSE w

\* UPNPVolumeController.refresh_devices
Refresh(w, pass, subOK) ==
    IF pass = DiscoverRaises
    THEN [w EXCEPT !.en = Log(@, E("discover", "", "raise"))]
    ELSE LET st == RefreshLoop(
                     [w |-> [w EXCEPT !.en = Log(@, E("discover", PassName(pass),
                                                      "ok"))],
                      valid |-> <<>>], pass, subOK)
         IN  AutoSelect(st.w, st.valid)

\* UPNPVolumeController._notify_device_change: every device observer is
\* called with self.current_device
RECURSIVE NotifyDeviceChange(_, _, _)
NotifyDeviceChange(en, n, cd) ==
    IF n = 0 THEN en
    ELSE Log(NotifyDeviceChange(en, n - 1, cd),
             E("device_cb", ToString(n), cd.v))

\* select_device mutant: an unknown name clears the selection
SelectMiss_Clears(w) ==
    [w |-> [w EXCEPT !.cd = NoRef, !.cp = NoProfile], r |-> FALSE]

\* select_device, the name is not a key of self.devices
SelectMiss(w) ==
    [w |-> w, r |-> FALSE]

\* select_device mutant: the device observers are not notified
SelectHit_NoNotify(w, name, subOK, nobs) ==
    LET info == w.devices[name]
        p1   == [info.prof EXCEPT !.nlisten = @ + 1]
        sub  == SubscribeToEvents(p1, info.dev,
                    Log(w.en, E("subscribe_to_events", info.dev, "")), subOK)
    IN  [w |-> [w EXCEPT !.cd = DevRef(info.dev), !.cp = RegProfile(name),
                         !.devices[name].prof = sub.p, !.en = sub.en],
         r |-> TRUE]

\* select_device, the name is a key of self.devices: the registry's pair
\* becomes current, the three listeners are appended to the profile's
\* callback lists, subscribe_to_events runs, the device observers are called
SelectHit(w, name, subOK, nobs) ==
    LET info == w.devices[name]
        p1   == [info.prof EXCEPT !.nlisten = @ + 1]
        sub  == SubscribeToEvents(p1, info.dev,
                    Log(w.en, E("subscribe_to_events", info.dev, "")), subOK)
    IN  [w |-> [w EXCEPT !.cd = DevRef(info.dev), !.cp = RegProfile(name),
                         !.devices[name].prof = sub.p,
                         !.en = NotifyDeviceChange(sub.en, nobs,
                                                   DevRef(info.dev))],
         r |-> TRUE]

\* UPNPVolumeController.select_device
Select(w, name, subOK, nobs) ==
    IF name \in DOMAIN w.devices THEN SelectHit(w, name, subOK, nobs)
    ELSE SelectMiss(w)

\* UPNPVolumeController.get_current_volume
GetCurrentVolume(w) ==
    IF Selected(w) THEN GetVolume(CurrentProfile(w), w.cd, w.en) ELSE None

\* self.current_profile.set_volume(self.current_device, new_volume), with the
\* call and its result recorded
SetCurrent(w, nobs) ==
    LET s == SetVolumeOn(CurrentProfile(w), w.cd, w.en, nobs)
    IN  [en |-> Log(s.en, E("set_volume", w.cd.v, B2S(s.r))), r |-> s.r]

\* UPNPVolumeController.volume_up: no reconnect and no retry
VolumeUpOp(w, nobs) ==
    IF ~Selected(w) THEN [w |-> w, r |-> FALSE]
    ELSE IF GetCurrentVolume(w) = None THEN [w |-> w, r |-> FALSE]
    ELSE LET s == SetCurrent(w, nobs)
         IN  IF s.r
             THEN [w |-> [w EXCEPT !.en = NotifyVolumeChange(s.en, nobs)],
                   r |-> TRUE]
             ELSE [w |-> [w EXCEPT !.en = s.en], r |-> FALSE]

\* UPNPVolumeController._ensure_device_connected: discovery runs only when no
\* device is selected
EnsureDeviceConnected(w, pass, subOK) ==
    IF ~Selected(w)
    THEN LET w1 == Refresh(w, pass, subOK)
         IN  [w |-> w1, r |-> Selected(w1)]
    ELSE [w |-> w, r |-> TRUE]

\* UPNPVolumeController.volume_down at nesting depth `depth`: after a failed
\* set it calls itself; the self-call that would exceed the interpreter's
\* recursion limit raises RecursionError, which the handlers at lines 252 and
\* 258 turn into False
RECURSIVE VolumeDownOp(_, _, _, _, _)
VolumeDownOp(w, depth, pass, subOK, nobs) ==
    LET c == EnsureDeviceConnected(w, pass, subOK)
    IN  IF ~c.r THEN [w |-> c.w, r |-> FALSE]
        ELSE IF GetCurrentVolume(c.w) = None THEN [w |-> c.w, r |-> FALSE]
        ELSE LET s  == SetCurrent(c.w, nobs)
                 w1 == [c.w EXCEPT !.en = s.en]
             IN  IF s.r
                 THEN [w |-> [w1 EXCEPT !.en = NotifyVolumeChange(s.en, nobs)],
                       r |-> TRUE]
                 ELSE LET c2 == EnsureDeviceConnected(w1, pass, subOK)
                      IN  IF ~c2.r THEN [w |-> c2.w, r |-> FALSE]
                          ELSE IF depth < MaxDepth
                          THEN VolumeDownOp(c2.w, depth + 1, pass, subOK, nobs)
                          ELSE [w |-> c2.w, r |-> FALSE]

\* UPNPVolumeController.save_settings
SaveSettings(w) ==
    [w EXCEPT !.sf = w.lu, !.en = Log(@, E("save_settings", w.lu, ""))]

\* handle_volume_up / handle_volume_down, the "last used device first" block
\* (lines 282-297): a successful relative adjust returns at once; otherwise
\* read-then-absolute-set on the same device
HandleLastUsed(w, nobs) ==
    IF w.lu # None /\ w.lu \in DOMAIN w.devices
    THEN LET info == w.devices[w.lu]
             ref  == DevRef(info.dev)
             rel0 == SetVolumeRelative(info.prof, ref, w.en, nobs)
             en1  == Log(rel0.en, E("last_used_relative", w.lu, B2S(rel0.r)))
         IN  IF rel0.r THEN [w |-> [w EXCEPT !.en = en1], done |-> TRUE]
             ELSE IF GetVolume(info.prof, ref, en1) = None
             THEN [w |-> [w EXCEPT !.en = en1], done |-> FALSE]
             ELSE LET s0  == SetVolumeOn(info.prof, ref, en1, nobs)
                      en2 == Log(s0.en,
                                 E("last_used_absolute", w.lu, B2S(s0.r)))
                  IN  IF s0.r
                      THEN [w |-> SaveSettings(
                                [w EXCEPT !.en = en2,
                                          !.lu = FriendlyName(info.dev)]),
                            done |-> TRUE]
                      ELSE [w |-> [w EXCEPT !.en = en2], done |-> FALSE]
    ELSE [w |-> w, done |-> FALSE]

\* registry loop mutant: a device that succeeds does not end the iteration
RECURSIVE HandleLoop_NoStop(_, _, _)
HandleLoop_NoStop(w, names, nobs) ==
    IF names = <<>> THEN [w |-> w, r |-> FALSE]
    ELSE LET name == Head(names)
             info == w.devices[name]
             rel  == SetVolumeRelative(info.prof, DevRef(info.dev), w.en, nobs)
             en1  == Log(rel.en, E("relative", name, B2S(rel.r)))
             rest == HandleLoop_NoStop(
                         IF rel.r
                         THEN SaveSettings([w EXCEPT !.en = en1, !.lu = name])
                         ELSE [w EXCEPT !.en = en1], Tail(names), nobs)
         IN  [w |-> rest.w, r |-> rel.r \/ rest.r]

\* handle_volume_up / handle_volume_down, the loop over self.devices.items()
\* (lines 304-321).  set_volume_relative swallows every exception, so the
\* except branch with the absolute fallback never runs.
RECURSIVE HandleLoop(_, _, _)
HandleLoop(w, names, nobs) ==
    IF names = <<>> THEN [w |-> w, r |-> FALSE]
    ELSE LET name == Head(names)
             info == w.devices[name]
             rel  == SetVolumeRelative(info.prof, DevRef(info.dev), w.en, nobs)
             en1  == Log(rel.en, E("relative", name, B2S(rel.r)))
         IN  IF rel.r
             THEN [w |-> SaveSettings([w EXCEPT !.en = en1, !.lu = name]),
                   r |-> TRUE]
             ELSE HandleLoop([w EXCEPT !.en = en1], Tail(names), nobs)

\* refresh-if-empty mutant: discovery runs on every key press
RefreshIfEmpty_Always(w, pass, subOK) ==
    Refresh(w, pass, subOK)

\* handle_volume_up, lines 299-301: `if not self.devices: refresh_devices()`
RefreshIfEmpty(w, pass, subOK) ==
    IF DOMAIN w.devices = {} THEN Refresh(w, pass, subOK) ELSE w

\* UPNPVolumeController.handle_volume_up / handle_volume_down
HandleVolumeOp(w, pass, subOK, nobs) ==
    LET first == HandleLastUsed(w, nobs)
    IN  IF first.done THEN [w |-> first.w, r |-> TRUE]
        ELSE LET w1 == RefreshIfEmpty(first.w, pass, subOK)
             IN  HandleLoop(w1, w1.order, nobs)

\* ------------------------------------------------- inputs of an operation
RECURSIVE SeqsUpTo(_, _)
SeqsUpTo(S, n) ==
    IF n = 0 THEN {<<>>}
    ELSE LET shorter == SeqsUpTo(S, n - 1)
         IN  shorter \cup
             {Append(q, d) : q \in {x \in shorter : Len(x) = n - 1},
                             d \in S}

\* what upnpclient.discover can return: device handles in any order, each
\* device at most once, or an exception
Passes ==
    {q \in SeqsUpTo(Devs, MaxPass) :
        \A i, j \in 1..Len(q) : i # j => q[i] # q[j]}
    \cup {DiscoverRaises}

\* one device's replies during one operation, up to replies no operation
\* can tell apart: a write mode matters only when a read yields a value
\* (a Denon profile stops at a null reading, the other classes at every
\* non-null one)
Behaviours(d) ==
    IF GetDeviceProfile(d) = "Denon"
    THEN {b \in ReadModes \X WriteModes : b[1] = "ok" \/ b[2] = "never"}
    ELSE {b \in {"ok", "null"} \X WriteModes : b[1] = "null" \/ b[2] = "never"}

\* the replies of the devices in `rel` during one operation
Replies(rel) ==
    {Env([d \in Devs |-> IF d \in rel THEN b[d][1] ELSE "ok"],
         [d \in Devs |-> IF d \in rel THEN b[d][2] ELSE "never"]) :
        b \in {f \in [rel -> ReadModes \X WriteModes] :
                  \A d \in rel : f[d] \in Behaviours(d)}}

\* the answers to SUBSCRIBE during a discovery pass (none is sent unless a
\* device of the pass gets a Denon profile)
SubReplies(pass) ==
    IF \E i \in 1..Len(pass) : GetDeviceProfile(pass[i]) = "Denon"
    THEN BOOLEAN ELSE {TRUE}

NoReplies == Env([d \in Devs |-> "ok"], [d \in Devs |-> "never"])

RegDevs == {devices[n].dev : n \in DOMAIN devices}
Matched == {d \in Devs : GetDeviceProfile(d) # None}
CurDevs == IF current_device.k = "dev" THEN {current_device.v} ELSE {}
InPass(pass) == {d \in Matched : \E i \in 1..Len(pass) : pass[i] = d}

\* ------------------------------------------------------------------ actions
Idle == [op |-> "idle", arg |-> "", res |-> "", healthy |-> {}]

\* the devices that answer every read with a value and accept every write
\* during the operation
Healthy(en, rel) ==
    {d \in rel : en.rd[d] = "ok" /\ en.wr[d] = "never"}

\* the state an operation leaves behind
CommitH(w, op, arg, r, healthy) ==
    /\ devices' = w.devices
    /\ order' = w.order
    /\ current_device' = w.cd
    /\ current_profile' = w.cp
    /\ last_used_device' = w.lu
    /\ settings_file' = w.sf
    /\ lastOp' = [op |-> op, arg |-> arg, res |-> r, healthy |-> healthy]
    /\ fx' = w.en.fx
    /\ srv' = w.srv
    /\ UNCHANGED <<dv, vop, nop, xop, race, conv, disp>>

Commit(w, op, arg, r) == CommitH(w, op, arg, r, {})

\* __init__: empty registry, nothing selected, last_used_device loaded from
\* the settings file when it exists
Init ==
    /\ devices = [n \in {} |-> 0]
    /\ order = <<>>
    /\ current_device = NoRef
    /\ current_profile = NoProfile
    /\ settings_file \in {None} \cup {FriendlyName(d) : d \in Matched}
    /\ last_used_device = settings_file
    /\ volume_callbacks = 0
    /\ device_callbacks = 0
    /\ lastOp = Idle
    /\ fx = <<>>
    /\ dv = NoDevice
    /\ vop = NoVolOp
    /\ srv = NoServer
    /\ nop = NoNotify
    /\ xop = NoCall
    /\ race = NoRace
    /\ conv = NoConv
    /\ disp = NoDisp

\* the caller takes the result; the controller is ready for the next call
Return ==
    /\ lastOp # Idle
    /\ lastOp' = Idle
    /\ fx' = <<>>
    /\ UNCHANGED <<devices, order, current_device, current_profile,
                   last_used_device, settings_file, volume_callbacks,
                   device_callbacks, unit>>

\* on_volume_change(callback)
OnVolumeChange ==
    /\ lastOp = Idle
    /\ volume_callbacks < MaxObs
    /\ volume_callbacks' = volume_callbacks + 1
    /\ UNCHANGED device_callbacks
    /\ Commit(World(NoReplies), "on_volume_change", "", "")

\* on_device_change(callback)
OnDeviceChange ==
    /\ lastOp = Idle
    /\ device_callbacks < MaxObs
    /\ device_callbacks' = device_callbacks + 1
    /\ UNCHANGED volume_callbacks
    /\ Commit(World(NoReplies), "on_device_change", "", "")

\* refresh_devices()
RefreshDevices ==
    /\ lastOp = Idle
    /\ \E pass \in Passes :
          \E subOK \in SubReplies(pass) :
              Commit(Refresh(World(NoReplies), pass, subOK),
                     "refresh_devices", "", "")
    /\ UNCHANGED <<volume_callbacks, device_callbacks>>

\* select_device(name)
SelectDevice ==
    /\ lastOp = Idle
    /\ \E name \in Names :
          /\ name \in DOMAIN devices =>
                devices[name].prof.nlisten < MaxListen
          /\ \E subOK \in IF name \in DOMAIN devices
                          THEN SubReplies(<<devices[name].dev>>) ELSE {TRUE} :
                LET s == Select(World(NoReplies), name, subOK,
                                device_callbacks)
                IN  Commit(s.w, "select_device", name, B2S(s.r))
    /\ UNCHANGED <<volume_callbacks, device_callbacks>>

\* volume_up()
VolumeUp ==
    /\ lastOp = Idle
    /\ \E en \in Replies(CurDevs) :
          LET s == VolumeUpOp(World(en), volume_callbacks)
          IN  Commit(s.w, "volume_up", "", B2S(s.r))
    /\ UNCHANGED <<volume_callbacks, device_callbacks>>

\* volume_down()
VolumeDown ==
    /\ lastOp = Idle
    /\ \E en \in Replies(CurDevs),
          pass \in IF Selected(World(NoReplies)) THEN {<<>>} ELSE Passes :
          \E subOK \in SubReplies(pass) :
              LET s == VolumeDownOp(World(en), 1, pass, subOK,
                                    volume_callbacks)
              IN  Commit(s.w, "volume_down", "", B2S(s.r))
    /\ UNCHANGED <<volume_callbacks, device_callbacks>>

\* handle_volume_up() / handle_volume_down()
HandleVolume ==
    /\ lastOp = Idle
    /\ \E pass \in IF DOMAIN devices = {} THEN Passes ELSE {<<>>} :
          \E subOK \in SubReplies(pass),
             en \in Replies(IF DOMAIN devices = {} THEN InPass(pass)
                            ELSE RegDevs) :
              LET s == HandleVolumeOp(World(en), pass, subOK,
                                      volume_callbacks)
              IN  CommitH(s.w, "handle_volume", "", B2S(s.r),
                          Healthy(en, {s.w.devices[n].dev :
                                          n \in DOMAIN s.w.devices}))
    /\ UNCHANGED <<volume_callbacks, device_callbacks>>

Next ==
    \/ Return
    \/ OnVolumeChange
    \/ OnDeviceChange
    \/ RefreshDevices
    \/ SelectDevice
    \/ VolumeUp
    \/ VolumeDown
    \/ HandleVolume

Spec == Init /\ [][Next]_vars

\* ------------------------------------------------------------------ claims
NumEv(f, kind) == Cardinality({i \in 1..Len(f) : f[i].e = kind})
IsSetVolume(ev) == ev.e = "set_volume"
IsRelative(ev) == ev.e = "relative"
IsRegistered(ev) == ev.e = "registered"
SetCalls(f) == SelectSeq(f, IsSetVolume)
RelativeCalls(f) == SelectSeq(f, IsRelative)
Registered(f) == SelectSeq(f, IsRegistered)
Core ==
    <<devices, order, current_device, current_profile, last_used_device,
      settings_file, volume_callbacks, device_callbacks>>

\* C1: in volume_up() and volume_down() alike, a failed set on the current
\* device is followed by exactly one discovery run and exactly one retry of
\* the set (two set attempts in all), and by nothing more.
C1_OneReconnectOneRetry ==
    (/\ lastOp.op \in {"volume_up", "volume_down"}
     /\ SetCalls(fx) # <<>>
     /\ SetCalls(fx)[1].b = "F")
    => (NumEv(fx, "discover") = 1 /\ Len(SetCalls(fx)) = 2)

\* C2: volume_down() stops after a fixed maximum of set attempts of its own
\* (the original attempt and one retry), and so before the interpreter's
\* recursion limit is what ends it.
C2_BoundedSetAttempts ==
    lastOp.op = "volume_down"
    => (Len(SetCalls(fx)) <= 2 /\ Len(SetCalls(fx)) < MaxDepth)

\* C3: select_device(name) with a name that is not a key of the registry
\* returns failure and changes nothing: not the selection, the registry, the
\* last-used device, the settings, the listeners on any profile or the
\* observer lists; it sends no SUBSCRIBE and calls no device observer.
C3_SelectUnknownChangesNothing ==
    [][(lastOp'.op = "select_device" /\ lastOp'.arg \notin DOMAIN devices)
       => (lastOp'.res = "F" /\ fx' = <<>> /\ UNCHANGED Core)]_vars

C3_Witness ==
    /\ lastOp.op = "select_device"
    /\ lastOp.res = "F"
    /\ current_device.k = "dev"
    /\ device_callbacks > 0
    /\ \E n \in DOMAIN devices : devices[n].prof.nlisten > 0

\* C4: select_device(name) with a name of the registry returns success, makes
\* the registry's (device, profile) pair current, registers the listeners
\* once more on that profile, calls subscribe_to_events of that profile for
\* that device once, and calls every device observer exactly once, in order,
\* with the new device.
C4_SelectKnown ==
    [][(lastOp'.op = "select_device" /\ lastOp'.arg \in DOMAIN devices)
       => LET n == lastOp'.arg
              d == devices[n].dev
          IN  /\ lastOp'.res = "T"
              /\ current_device' = DevRef(d)
              /\ current_profile' = RegProfile(n)
              /\ devices'[n].dev = d
              /\ devices'[n].prof.nlisten = devices[n].prof.nlisten + 1
              /\ Cardinality({i \in 1..Len(fx') :
                     fx'[i] = E("subscribe_to_events", d, "")}) = 1
              /\ NumEv(fx', "subscribe_to_events") = 1
              /\ SelectSeq(fx', LAMBDA ev : ev.e = "device_cb")
                   = [i \in 1..device_callbacks |->
                         E("device_cb", ToString(i), d)]]_vars

C4_Witness ==
    /\ lastOp.op = "select_device"
    /\ lastOp.res = "T"
    /\ device_callbacks > 0
    /\ NumEv(fx, "device_cb") = device_callbacks
    /\ current_profile.k = "reg"

\* a reference that denotes device d: its handle, or its friendly name
RefersTo(ref, d) ==
    \/ ref = DevRef(d)
    \/ ref = NameRef(FriendlyName(d))

\* C5: from Unselected, a refresh_devices() pass that matches at least one
\* device leaves current_device and current_profile set and referring to the
\* first device matched in the pass (the profile being the instance created
\* for that device); a pass that matches none leaves both absent.
C5_RefreshSelectsFirstMatched ==
    [][(lastOp'.op = "refresh_devices" /\ current_device = NoRef)
       => IF Registered(fx') # <<>>
          THEN LET d == Registered(fx')[1].b
               IN  /\ RefersTo(current_device', d)
                   /\ current_profile' # NoProfile
                   /\ current_profile'.k = "reg"
                   /\ devices'[current_profile'.n].prof.dev = d
          ELSE current_device' = NoRef /\ current_profile' = NoProfile]_vars

\* C6: a name that is a key of the registry stays a key, and keeps its place
\* in the insertion order, through every operation.
C6_RegistryAdditive ==
    [][/\ DOMAIN devices \subseteq DOMAIN devices'
       /\ SubSeq(order', 1, Len(order)) = order]_vars

C6_Witness ==
    /\ lastOp.op = "refresh_devices"
    /\ Registered(fx) = <<>>
    /\ Cardinality(DOMAIN devices) = 2

\* the friendly name of the device self.current_device denotes
CurrentName ==
    IF current_device.k = "dev" THEN FriendlyName(current_device.v)
    ELSE current_device.v

\* C7: whenever a profile is current, it is the very instance the registry
\* holds under the current device's name.
C7_CurrentProfileInRegistry ==
    current_profile # NoProfile
    => (current_profile.k = "reg" /\ current_profile.n = CurrentName)

\* C8: handle_volume_up()/handle_volume_down() report failure only when every
\* device of the registry has failed: no device of the registry that answers
\* its reads and accepts its writes is left when the call returns failure.
C8_FailureOnlyWhenAllFailed ==
    (lastOp.op = "handle_volume" /\ lastOp.res = "F")
    => lastOp.healthy = {}

C10_OneRefreshWhenEmpty ==
    [][lastOp'.op = "handle_volume"
       => /\ NumEv(fx', "discover") = IF DOMAIN devices = {} THEN 1 ELSE 0
          /\ DOMAIN devices' = {} => lastOp'.res = "F"]_vars

C10_Witness ==
    /\ lastOp.op = "handle_volume"
    /\ NumEv(fx, "discover") = 1
    /\ DOMAIN devices = {}
    /\ lastOp.res = "F"

\* C11: the persisted last-used name follows the active device: after a
\* successful select_device(name) it is that name, and after a key-press
\* adjustment that ends on another device than before it is that device's
\* name.
C11_PersistedFollowsActive ==
    [][/\ (lastOp'.op = "select_device" /\ lastOp'.res = "T")
            => settings_file' = lastOp'.arg
       /\ (/\ lastOp'.op = "handle_volume"
           /\ lastOp'.res = "T"
           /\ last_used_device' # last_used_device)
            => settings_file' = last_used_device']_vars

\* ============================================================ volume layer
\* The numeric behaviour of the profiles and of volume_up, volume_down and
\* set_volume on a selected device.  Raw device values are integers in
\* hundredths of a raw unit and percent values integers in tenths of a
\* percent; 10^x comes from four-decimal tables, so a percent value is the
\* code's float rounded down to a tenth.

\* MAX_VOL in DenonProfile._raw_to_percent and _percent_to_raw
MAX_VOL == 98
\* step = 2 in volume_up and volume_down
VolumeStep == 2

Min(a, b) == IF a < b THEN a ELSE b
Max(a, b) == IF a > b THEN a ELSE b
Abs(a) == IF a < 0 THEN -a ELSE a

\* 10^(a/100) for a = 0..100, scaled by 10^4
Pow10Centi ==
    << 10000,  10233,  10471,  10715,  10965,  11220,  11482,  11749,  12023,  12303,
       12589,  12882,  13183,  13490,  13804,  14125,  14454,  14791,  15136,  15488,
       15849,  16218,  16596,  16982,  17378,  17783,  18197,  18621,  19055,  19498,
       19953,  20417,  20893,  21380,  21878,  22387,  22909,  23442,  23988,  24547,
       25119,  25704,  26303,  26915,  27542,  28184,  28840,  29512,  30200,  30903,
       31623,  32359,  33113,  33884,  34674,  35481,  36308,  37154,  38019,  38905,
       39811,  40738,  41687,  42658,  43652,  44668,  45709,  46774,  47863,  48978,
       50119,  51286,  52481,  53703,  54954,  56234,  57544,  58884,  60256,  61660,
       63096,  64565,  66069,  67608,  69183,  70795,  72444,  74131,  75858,  77625,
       79433,  81283,  83176,  85114,  87096,  89125,  91201,  93325,  95499,  97724,
      100000>>

\* 10^(b/1000) for b = 0..9, scaled by 10^4
Pow10Milli ==
    << 10000,  10023,  10046,  10069,  10093,  10116,  10139,  10162,  10186,  10209>>

\* math.pow(10, percent/100) for percent in tenths, scaled by 10^4
Pow10(p) ==
    (Pow10Centi[(p \div 10) + 1] * Pow10Milli[(p % 10) + 1]) \div 10000

\* _percent_to_raw mutant: a linear scale
PercentToRaw_Linear(percent) ==
    Max(0, Min(MAX_VOL * 100, (Max(0, Min(1000, percent)) * MAX_VOL) \div 10))

\* DenonProfile._percent_to_raw: clamp to 0..100, inverse log curve, round
\* to the nearest half raw unit, clamp to 0..MAX_VOL
PercentToRaw(percent) ==
    LET pc     == Max(0, Min(1000, percent))
        x      == Pow10(pc) - 10000
        halves == (x * MAX_VOL * 4 + 90000) \div 180000
    IN  Max(0, Min(MAX_VOL * 100, halves * 50))

\* _raw_to_percent mutant: a linear scale, the input is not clamped
RawToPercent_Unclamped(raw) == (raw * 10) \div MAX_VOL

\* DenonProfile._raw_to_percent: clamp to 0..MAX_VOL, then
\* 100 * log10(1 + 9 * raw / MAX_VOL)
RawToPercent(raw) ==
    LET r  == Max(0, Min(MAX_VOL * 100, raw))
        v  == 10000 + (r * 900) \div MAX_VOL
        a  == CHOOSE k \in 0..100 :
                 /\ Pow10Centi[k + 1] <= v
                 /\ k < 100 => Pow10Centi[k + 2] > v
        ok(b) == 10 * a + b <= 1000 /\ Pow10(10 * a + b) <= v
        b  == CHOOSE k \in 0..9 : ok(k) /\ (k < 9 => ~ok(k + 1))
    IN  10 * a + b

\* the replies of the device during one operation: how GetVolume answers,
\* how many leading SetVolume / SetGroupVolume invocations raise, and
\* whether the GetVolume that follows a write raises
VEnv(rd, wf, vf) == [rd |-> rd, wf |-> wf, vf |-> vf]
VReadModes == ReadModes \ {"same"}

\* an event of the trace: what happened, the value involved, its outcome
V(e, v, ok) == [e |-> e, v |-> v, ok |-> ok]
VLog(st, ev) == [st EXCEPT !.tr = Append(@, ev)]

\* an Optional number: None, or a value
NoValue == [some |-> FALSE, v |-> 0]
Some(v) == [some |-> TRUE, v |-> v]

\* DeviceProfile.get_volume / DenonProfile.get_volume, as a percent value
\* or None
GetVolumeN(cls, d, st, env) ==
    IF ~GetRenderingControl(DevRef(d)) THEN NoValue
    ELSE CASE env.rd = "raise"   -> NoValue
           [] env.rd = "missing" -> NoValue
           [] env.rd = "null"    -> Some(0)
           [] OTHER -> IF cls = "Denon" THEN Some(RawToPercent(st.stored))
                       ELSE NoValue

\* set_volume mutant: the write is issued whatever the device holds
RECURSIVE DenonSetVolumeN_NoSkip(_, _, _, _, _)
DenonSetVolumeN_NoSkip(d, st, env, percent, retries) ==
    LET st0 == VLog(st, V("attempt", retries, TRUE))
        st1 == IF env.rd = "ok"
               THEN VLog(st0, V("GetVolume", st0.stored, TRUE)) ELSE st0
        raw_volume == PercentToRaw(percent)
        again(s) == IF retries - 1 > 0
                    THEN DenonSetVolumeN_NoSkip(d, s, env, percent,
                                                retries - 1)
                    ELSE [st |-> s, r |-> FALSE]
    IN  IF env.rd \in {"raise", "null"} THEN again(st0)
        ELSE IF st1.nw < env.wf
        THEN again([VLog(st1, V("SetVolume", raw_volume, FALSE))
                       EXCEPT !.nw = @ + 1])
        ELSE LET st2 == [VLog(st1, V("SetVolume", raw_volume, TRUE))
                            EXCEPT !.nw = @ + 1, !.stored = raw_volume]
             IN  IF env.vf THEN again(st2) ELSE [st |-> st2, r |-> TRUE]

\* DenonProfile.set_volume with `retries` attempts left: read, convert, skip
\* when within 0.1 raw units, else write and read back; an exception in any
\* of these steps (float(None) on a null reading included) costs one attempt
RECURSIVE DenonSetVolumeN(_, _, _, _, _)
DenonSetVolumeN(d, st, env, percent, retries) ==
    IF ~GetRenderingControl(DevRef(d)) THEN [st |-> st, r |-> FALSE]
    ELSE LET st0 == VLog(st, V("attempt", retries, TRUE))
             st1 == IF env.rd = "ok"
                    THEN VLog(st0, V("GetVolume", st0.stored, TRUE))
                    ELSE st0
             raw_volume == PercentToRaw(percent)
             again(s) == IF retries - 1 > 0
                         THEN DenonSetVolumeN(d, s, env, percent, retries - 1)
                         ELSE [st |-> s, r |-> FALSE]
         IN  IF env.rd \in {"raise", "null"} THEN again(st0)
             ELSE IF env.rd = "ok" /\ Abs(st1.stored - raw_volume) < 10
             THEN [st |-> st1, r |-> TRUE]
             ELSE IF st1.nw < env.wf
             THEN again([VLog(st1, V("SetVolume", raw_volume, FALSE))
                            EXCEPT !.nw = @ + 1])
             ELSE LET st2 == [VLog(st1, V("SetVolume", raw_volume, TRUE))
                                 EXCEPT !.nw = @ + 1, !.stored = raw_volume]
                  IN  IF env.vf THEN again(st2)
                      ELSE [st |-> st2, r |-> TRUE]

\* DeviceProfile.set_volume: the value is written as it comes
BaseSetVolumeN(d, st, env, volume) ==
    IF ~GetRenderingControl(DevRef(d)) THEN [st |-> st, r |-> FALSE]
    ELSE LET st0 == VLog(st, V("attempt", 1, TRUE))
         IN  IF st0.nw < env.wf
             THEN [st |-> [VLog(st0, V("SetVolume", volume, FALSE))
                              EXCEPT !.nw = @ + 1],
                   r |-> FALSE]
             ELSE [st |-> [VLog(st0, V("SetVolume", volume, TRUE))
                              EXCEPT !.nw = @ + 1, !.stored = volume * 10],
                   r |-> TRUE]

\* UPNPVolumeController._notify_volume_change(volume)
RECURSIVE NotifyVolumeChangeN(_, _, _)
NotifyVolumeChangeN(st, n, volume) ==
    IF n = 0 THEN st
    ELSE VLog(NotifyVolumeChangeN(st, n - 1, volume),
              V("volume_cb", volume, TRUE))

\* DeviceProfile._notify("volume_changed", volume) on an instance that
\* carries nlisten registrations of the controller's listener
RECURSIVE ProfileNotifyN(_, _, _, _)
ProfileNotifyN(st, nlisten, nobs, volume) ==
    IF nlisten = 0 THEN st
    ELSE NotifyVolumeChangeN(ProfileNotifyN(st, nlisten - 1, nobs, volume),
                             nobs, volume)

\* SonosProfile.set_volume mutant: a group command that raises is the result
SonosSetVolumeN_NoFallback(p, d, st, env, volume, nobs) ==
    IF HasGroup(d)
    THEN LET st0 == VLog(st, V("attempt", 1, TRUE))
             ok == st0.nw >= env.wf
         IN  [st |-> [VLog(st0, V("SetGroupVolume", volume, ok))
                         EXCEPT !.nw = @ + 1,
                                !.stored = IF ok THEN volume * 10 ELSE @],
              r |-> ok]
    ELSE BaseSetVolumeN(d, st, env, volume)

\* SonosProfile.set_volume
SonosSetVolumeN(p, d, st, env, volume, nobs) ==
    IF HasGroup(d)
    THEN LET st0 == VLog(st, V("attempt", 1, TRUE))
         IN  IF st0.nw < env.wf
             THEN BaseSetVolumeN(d,
                      [VLog(st0, V("SetGroupVolume", volume, FALSE))
                          EXCEPT !.nw = @ + 1], env, volume)
             ELSE [st |-> ProfileNotifyN(
                              [VLog(st0, V("SetGroupVolume", volume, TRUE))
                                  EXCEPT !.nw = @ + 1,
                                         !.stored = volume * 10],
                              p.nlisten, nobs, volume),
                   r |-> TRUE]
    ELSE BaseSetVolumeN(d, st, env, volume)

\* profile.set_volume(device, volume), dispatched on the profile class
SetVolumeN(p, d, st, env, volume, nobs) ==
    CASE p.cls = "Denon" -> DenonSetVolumeN(d, st, env, volume, DenonRetries)
      [] p.cls = "Sonos" -> SonosSetVolumeN(p, d, st, env, volume, nobs)
      [] OTHER           -> BaseSetVolumeN(d, st, env, volume)

\* DeviceProfile.set_volume_relative: read, clamp current + change to
\* 0..100, set_volume
SetVolumeRelativeN(p, d, st, env, change, nobs) ==
    LET current == GetVolumeN(p.cls, d, st, env)
    IN  IF ~current.some THEN [st |-> st, r |-> FALSE]
        ELSE SetVolumeN(p, d, st, env,
                        Max(0, Min(1000, current.v + change)), nobs)

\* volume_up: new_volume = min(100, current + step)
StepUp_NoCap(current) == current + VolumeStep * 10
StepUp(current) == Min(1000, current + VolumeStep * 10)
\* volume_down: new_volume = max(0, current - step)
StepDown(current) == Max(0, current - VolumeStep * 10)

\* self.current_profile.set_volume(self.current_device, volume), with the
\* call and its result recorded
VSetCurrent(p, d, st, env, volume, nobs) ==
    LET s == SetVolumeN(p, d, st, env, volume, nobs)
    IN  [st |-> VLog(s.st, V("set_volume", volume, s.r)), r |-> s.r]

\* UPNPVolumeController.volume_up on a selected device
VolumeUpN(p, d, st, env, nobs) ==
    LET current == GetVolumeN(p.cls, d, st, env)
    IN  IF ~current.some THEN [st |-> st, r |-> FALSE]
        ELSE LET st0 == VLog(st, V("get_volume", current.v, TRUE))
                 new_volume == StepUp(current.v)
                 s == VSetCurrent(p, d, st0, env, new_volume, nobs)
             IN  IF s.r
                 THEN [st |-> NotifyVolumeChangeN(s.st, nobs, new_volume),
                       r |-> TRUE]
                 ELSE s

\* UPNPVolumeController.volume_down on a selected device, at nesting depth
\* `depth` (_ensure_device_connected returns True when a device is selected)
RECURSIVE VolumeDownN(_, _, _, _, _, _)
VolumeDownN(p, d, st, env, nobs, depth) ==
    LET current == GetVolumeN(p.cls, d, st, env)
    IN  IF ~current.some THEN [st |-> st, r |-> FALSE]
        ELSE LET st0 == VLog(st, V("get_volume", current.v, TRUE))
                 new_volume == StepDown(current.v)
                 s == VSetCurrent(p, d, st0, env, new_volume, nobs)
             IN  IF s.r
                 THEN [st |-> NotifyVolumeChangeN(s.st, nobs, new_volume),
                       r |-> TRUE]
                 ELSE IF depth < MaxDepth
                 THEN VolumeDownN(p, d, s.st, env, nobs, depth + 1)
                 ELSE s

\* UPNPVolumeController.handle_volume_up (change = +2) and
\* handle_volume_down (change = -2) with one registered device d: the last
\* used device is tried with set_volume_relative, then with get_volume and
\* an absolute set_volume; after that every registry entry is tried with
\* set_volume_relative (which returns False rather than raising, so the
\* except branch of the loop is never entered).  lu is last_used_device
\* afterwards, saved tells whether save_settings ran.
HandleVolumeN(p, d, st, env, change, last_used, nobs) ==
    LET name == FriendlyName(d)
        done(s, lu, saved) == [st |-> s, r |-> TRUE, lu |-> lu, saved |-> saved]
        loop(s0) ==
            LET a == SetVolumeRelativeN(p, d, s0, env, change, nobs)
            IN  IF a.r THEN done(a.st, name, TRUE)
                ELSE [st |-> a.st, r |-> FALSE, lu |-> last_used,
                      saved |-> FALSE]
    IN  IF last_used # name THEN loop(st)
        ELSE LET a == SetVolumeRelativeN(p, d, st, env, change, nobs)
                 current == GetVolumeN(p.cls, d, a.st, env)
                 b == SetVolumeN(p, d,
                                 VLog(a.st, V("get_volume", current.v, TRUE)),
                                 env, Max(0, Min(1000, current.v + change)),
                                 nobs)
             IN  IF a.r THEN done(a.st, last_used, FALSE)
                 ELSE IF ~current.some THEN loop(a.st)
                 ELSE IF b.r THEN done(b.st, name, TRUE)
                 ELSE loop(b.st)

\* UPNPVolumeController.set_volume(volume) on a selected device
ControllerSetVolume(p, d, st, env, volume, nobs) ==
    SetVolumeN(p, d, st, env, volume, nobs)

\* ------------------------------------------------ volume layer: the machine
\* most operations of the volume layer in one behaviour
MaxOps == 2

\* values a device may hold when the first operation starts (hundredths of a
\* raw unit): below and above the 0..98 range, on and off the half-unit grid
Readings == {-500, 0, 4900, 4995, 9750, 9800, 12000}
\* percent arguments of set_volume (tenths of a percent)
PercentArgs == {-50, 0, 500, 747, 1000, 1500}
\* the changes handle_volume_up / handle_volume_down pass to
\* set_volume_relative
Changes == {VolumeStep * 10, -(VolumeStep * 10)}

\* enough failing writes to outlast every attempt of one operation
AlwaysFails == DenonRetries * MaxDepth + 1

\* the device replies one operation can tell apart.  DenonProfile never
\* reaches a write when the read raises or is null; the other classes read
\* only in get_volume (where every non-null reading ends the same way),
\* never read back, and invoke at most two writes
VEnvs(cls) ==
    IF cls = "Denon"
    THEN {VEnv(rd, 0, FALSE) : rd \in {"raise", "null"}}
         \cup {VEnv(rd, wf, vf) :
                 rd \in {"ok", "missing"}, wf \in 0..DenonRetries,
                 vf \in BOOLEAN}
         \cup {VEnv(rd, AlwaysFails, FALSE) : rd \in {"ok", "missing"}}
    ELSE {VEnv(rd, wf, FALSE) : rd \in {"ok", "null"}, wf \in 0..2}

\* the devices of the volume layer: one of each profile class, and a Sonos
\* device with and one without the group service
VolDevs == Matched \cup {"D5"}

\* the selected device's profile instance
VProfile == CurrentProfile(World(NoReplies))
VStart == [stored |-> dv.stored, nw |-> 0, tr |-> <<>>]

\* the controller's fields, which the operations of the volume layer do not
\* write while a device is selected
VFrame ==
    UNCHANGED <<devices, order, current_device, current_profile,
                last_used_device, settings_file, volume_callbacks,
                device_callbacks, lastOp, fx, srv, nop, xop, race, conv,
                disp>>

\* the state an operation of the volume layer leaves behind: the value the
\* device holds, and the operation with its replies, result and trace
VCommit(op, arg, env, s) ==
    /\ dv' = [dv EXCEPT !.stored = s.st.stored]
    /\ vop' = [op |-> op, arg |-> arg, env |-> env, res |-> s.r,
               tr |-> s.st.tr]
    /\ VFrame

\* one matched device is registered and selected (refresh_devices, then
\* select_device), observers may be registered, the device holds any value
VolInit ==
    /\ dv \in [d : VolDevs, stored : Readings, n : {0}, settled : {NoValue}]
    /\ vop = NoVolOp
    /\ srv = NoServer
    /\ nop = NoNotify
    /\ xop = NoCall
    /\ race = NoRace
    /\ conv = NoConv
    /\ disp = NoDisp
    /\ devices = [n \in {FriendlyName(dv.d)} |->
                    [dev |-> dv.d,
                     prof |-> [NewProfile(dv.d) EXCEPT !.nlisten = 1]]]
    /\ order = <<FriendlyName(dv.d)>>
    /\ current_device = DevRef(dv.d)
    /\ current_profile = RegProfile(FriendlyName(dv.d))
    /\ last_used_device \in {None, FriendlyName(dv.d)}
    /\ settings_file = last_used_device
    /\ volume_callbacks \in 0..MaxObs
    /\ device_callbacks = 0
    /\ lastOp = Idle
    /\ fx = <<>>

\* the caller takes the result.  dv.settled remembers the percent of a
\* set_volume that has just succeeded while the device answered its reads.
VolReturn ==
    /\ vop # NoVolOp
    /\ vop' = NoVolOp
    /\ dv' = [dv EXCEPT
                !.n = @ + 1,
                !.settled = IF /\ vop.op = "set_volume"
                               /\ vop.res
                               /\ vop.env.rd = "ok"
                            THEN Some(vop.arg) ELSE NoValue]
    /\ VFrame

VReady == vop = NoVolOp /\ dv.n < MaxOps

\* volume_up()
VolUp ==
    /\ VReady
    /\ \E env \in VEnvs(VProfile.cls) :
          VCommit("volume_up", 0, env,
                  VolumeUpN(VProfile, dv.d, VStart, env, volume_callbacks))

\* volume_down()
VolDown ==
    /\ VReady
    /\ \E env \in VEnvs(VProfile.cls) :
          VCommit("volume_down", 0, env,
                  VolumeDownN(VProfile, dv.d, VStart, env, volume_callbacks,
                              1))

\* set_volume(volume)
VolSet ==
    /\ VReady
    /\ \E env \in VEnvs(VProfile.cls), volume \in PercentArgs :
          VCommit("set_volume", volume, env,
                  ControllerSetVolume(VProfile, dv.d, VStart, env, volume,
                                      volume_callbacks))

\* profile.set_volume_relative(device, change)
VolRelative ==
    /\ VReady
    /\ \E env \in VEnvs(VProfile.cls), change \in Changes :
          VCommit("set_volume_relative", change, env,
                  SetVolumeRelativeN(VProfile, dv.d, VStart, env, change,
                                     volume_callbacks))

\* get_current_volume(): the selected profile's get_volume; the result is
\* recorded with whether it is a value (ok) or None
VolGet ==
    /\ VReady
    /\ \E env \in {e \in VEnvs(VProfile.cls) : e.wf = 0 /\ ~e.vf} :
          LET current == GetVolumeN(VProfile.cls, dv.d, VStart, env)
          IN  VCommit("get_volume", 0, env,
                      [st |-> VLog(VStart, V("get_volume", current.v,
                                             current.some)),
                       r |-> current.some])

\* handle_volume_up() / handle_volume_down(): besides the device, the call
\* may write last_used_device and the settings file
VolHandle ==
    /\ VReady
    /\ \E env \in VEnvs(VProfile.cls), change \in Changes :
          LET s == HandleVolumeN(VProfile, dv.d, VStart, env, change,
                                 last_used_device, volume_callbacks)
          IN  /\ dv' = [dv EXCEPT !.stored = s.st.stored]
              /\ vop' = [op |-> IF change > 0 THEN "handle_volume_up"
                                ELSE "handle_volume_down",
                         arg |-> change, env |-> env, res |-> s.r,
                         tr |-> s.st.tr]
              /\ last_used_device' = s.lu
              /\ settings_file' = IF s.saved THEN s.lu ELSE settings_file
    /\ UNCHANGED <<devices, order, current_device, current_profile,
                   volume_callbacks, device_callbacks, lastOp, fx, srv, nop,
                   xop, race, conv, disp>>

VolNext ==
    \/ VolReturn
    \/ VolUp
    \/ VolDown
    \/ VolSet
    \/ VolRelative
    \/ VolGet
    \/ VolHandle

VolSpec == VolInit /\ [][VolNext]_vars

\* --------------------------------------------------- volume layer: claims
VKind(kind) == {i \in 1..Len(vop.tr) : vop.tr[i].e = kind}
VWrites == VKind("SetVolume") \cup VKind("SetGroupVolume")

\* C12: in volume_up() and volume_down() the percent value passed to the
\* profile's set_volume and reported to the volume observers lies in
\* [0,100]: it is the reading plus 2 capped at 100, or the reading minus 2
\* floored at 0.
C12_StepStaysInRange ==
    vop.op \in {"volume_up", "volume_down"}
    => /\ \A i \in VKind("set_volume") \cup VKind("volume_cb") :
             vop.tr[i].v \in 0..1000
       /\ \A i \in VKind("set_volume") :
             \E j \in VKind("get_volume") :
                /\ j < i
                /\ vop.tr[i].v =
                      IF vop.op = "volume_up"
                      THEN Min(1000, vop.tr[j].v + 20)
                      ELSE Max(0, vop.tr[j].v - 20)

C12_Witness ==
    /\ vop.op = "volume_up"
    /\ vop.res
    /\ \E j \in VKind("get_volume") : vop.tr[j].v > 980
    /\ \E i \in VKind("volume_cb") : vop.tr[i].v = 1000

\* self.min_volume / self.max_volume of a profile class, in percent
MinVolume(cls) == 0
MaxVolume(cls) == IF cls = "Denon" THEN 98 ELSE 100

\* the percent-domain value of a write: the percent that stands for the raw
\* value a Denon profile writes, the written value itself elsewhere
WrittenPercent(cls, ev) ==
    IF cls = "Denon" THEN RawToPercent(ev.v) ELSE ev.v

\* C13: no operation, set_volume(p) with p below 0 or above 100 included,
\* makes a device write whose percent-domain value is outside
\* [min_volume, max_volume] of the device's profile.
C13_WritesClamped ==
    \A i \in VWrites :
        /\ WrittenPercent(VProfile.cls, vop.tr[i]) >= MinVolume(VProfile.cls) * 10
        /\ WrittenPercent(VProfile.cls, vop.tr[i]) <= MaxVolume(VProfile.cls) * 10

\* C14: set_volume(device, p) makes at most 3 attempts in every profile
\* class, and returns failure only once 3 attempts have failed.
C14_ThreeAttempts ==
    vop.op = "set_volume"
    => /\ Cardinality(VKind("attempt")) <= 3
       /\ ~vop.res => Cardinality(VKind("attempt")) = 3

C15_WitnessNear ==
    /\ vop.op = "set_volume"
    /\ VProfile.cls = "Denon"
    /\ \E i \in VKind("GetVolume") :
          /\ vop.tr[i].v # PercentToRaw(vop.arg)
          /\ Abs(vop.tr[i].v - PercentToRaw(vop.arg)) < 10

\* ============================================================= event layer
\* EventServer.start / stop, EventHandler.do_NOTIFY and the controller's
\* _handle_device_event.  The controller never starts the server itself
\* (the guard at upnp_volume_control.py:139 is never true), so the server is
\* modelled as a component whose start(callback) is called with the only
\* callback the code ever passes, self._handle_device_event.

\* most NOTIFY requests handled in one behaviour
MaxNotify == 2

\* a NOTIFY body, by what the two parsers make of it: the outer document,
\* the LastChange element and its text, the document inside that text, the
\* val attribute of its Volume element
Body(outer, wrapper, inner, val) ==
    [outer |-> outer, wrapper |-> wrapper, inner |-> inner, val |-> val,
     raw |-> IF val = "number" THEN 4900 ELSE 0]
Bodies ==
    {Body("malformed", "missing", "no_volume", "absent"),
     Body("xml", "missing", "no_volume", "absent"),
     Body("xml", "empty", "no_volume", "absent"),
     Body("xml", "text", "malformed", "absent"),
     Body("xml", "text", "no_volume", "absent"),
     Body("xml", "text", "volume", "absent"),
     Body("xml", "text", "volume", "number"),
     Body("xml", "text", "volume", "text")}

N(e, v) == [e |-> e, v |-> v]

\* _handle_device_event mutant: no try/except around the body
HandleDeviceEvent_NoHandler(tr, volume_val, nobs, hf) ==
    [tr |-> Append(tr, N("handle_device_event", volume_val)), exc |-> hf]

\* UPNPVolumeController._handle_device_event: the Volume entry is logged,
\* nothing else is called.  hf is what the body raises ("none": nothing);
\* the handler's own except clause logs it and the handler returns normally
HandleDeviceEvent(tr, volume_val, nobs, hf) ==
    [tr |-> IF hf = "none"
            THEN Append(tr, N("handle_device_event", volume_val))
            ELSE tr \o <<N("handle_device_event", volume_val),
                         N("handler_error_logged", 0)>>,
     exc |-> "none"]

\* do_NOTIFY mutant: the callback is called for every request
DoNotifyOp_AlwaysCalls(callback, body, sendOK, nobs, hf) ==
    [status |-> IF sendOK THEN 200 ELSE 0,
     tr |-> Append(IF callback # "none"
                   THEN HandleDeviceEvent(<<>>, body.raw, nobs, hf).tr
                   ELSE <<>>,
                   N("send_response", 200))]

\* do_NOTIFY mutant: the response is sent before the callback is called
DoNotifyOp_AckFirst(callback, body, sendOK, nobs, hf) ==
    LET ok == body.outer = "xml" /\ body.inner # "malformed"
        code == IF ok \/ body.wrapper # "text" THEN 200 ELSE 500
        calls == /\ body.outer = "xml" /\ body.wrapper = "text"
                 /\ body.inner = "volume" /\ body.val # "text"
                 /\ callback # "none"
    IN  [status |-> IF sendOK THEN code ELSE 0,
         tr |-> IF calls
                THEN HandleDeviceEvent(<<N("send_response", code)>>,
                                       body.raw, nobs, hf).tr
                ELSE <<N("send_response", code)>>]

\* EventHandler.do_NOTIFY.  A parse error of either document is caught by
\* the outer handler, which answers 500; a val that float() rejects is
\* caught by the inner handler.  When send_response raises, the outer
\* handler's own send_response raises again and no status is sent (0).
\* The trace holds the handler call and every send_response call, in the
\* order the code makes them.  An exception that leaves the callback is a
\* ValueError for the inner handler and anything else for the outer one.
DoNotifyOp(callback, body, sendOK, nobs, hf) ==
    LET respond(code, tr) ==
            [status |-> IF sendOK THEN code ELSE 0,
             tr |-> IF sendOK \/ code = 500
                    THEN Append(tr, N("send_response", code))
                    ELSE tr \o <<N("send_response", code),
                                 N("send_response", 500)>>]
    IN  IF body.outer = "malformed" THEN respond(500, <<>>)
        ELSE IF body.wrapper # "text" THEN respond(200, <<>>)
        ELSE IF body.inner = "malformed" THEN respond(500, <<>>)
        ELSE IF body.inner # "volume" THEN respond(200, <<>>)
        ELSE IF body.val = "text" THEN respond(200, <<>>)
        ELSE IF callback = "none" THEN respond(200, <<>>)
        ELSE LET h == HandleDeviceEvent(<<>>, body.raw, nobs, hf)
             IN  IF h.exc = "none" THEN respond(200, h.tr)
                 ELSE IF h.exc = "ValueError"
                 THEN respond(200, Append(h.tr, N("invalid_value_logged", 0)))
                 ELSE respond(500, h.tr)

\* the controller's fields, which the event server does not write
EvFrame ==
    UNCHANGED <<devices, order, current_device, current_profile,
                last_used_device, settings_file, volume_callbacks,
                device_callbacks, lastOp, fx, dv, vop, xop, race, conv,
                disp>>

\* a matched device is registered and selected with the controller's
\* listeners on its profile, observers may be registered, the server has not
\* been started
EvInit ==
    /\ \E d \in Matched :
          /\ devices = [n \in {FriendlyName(d)} |->
                          [dev |-> d,
                           prof |-> [NewProfile(d) EXCEPT !.nlisten = 1]]]
          /\ order = <<FriendlyName(d)>>
          /\ current_device = DevRef(d)
          /\ current_profile = RegProfile(FriendlyName(d))
    /\ last_used_device = None
    /\ settings_file = None
    /\ volume_callbacks \in 0..MaxObs
    /\ device_callbacks = 0
    /\ lastOp = Idle
    /\ fx = <<>>
    /\ dv = NoDevice
    /\ vop = NoVolOp
    /\ srv = NoServer
    /\ nop = NoNotify
    /\ xop = NoCall
    /\ race = NoRace
    /\ conv = NoConv
    /\ disp = NoDisp

\* most stop() calls in a row that are counted
MaxStops == 2

\* stop mutant: shutdown() waits for a serve_forever loop that is running
StopOp_WaitsForLoop(s) ==
    IF s.server = "none" THEN s
    ELSE IF s.thread # "serving" THEN [s EXCEPT !.blocked = TRUE]
    ELSE [s EXCEPT !.thread = "exited", !.server = "closed",
                   !.listening = FALSE]

\* EventServer.stop(): nothing without a server object; shutdown() ends a
\* running serve_forever, returns at once when serve_forever has ended
\* before, and waits for ever when serve_forever never ran on this server;
\* server_close() closes the socket (again).  self.server is not reset.
StopOp(s) ==
    IF s.server = "none" THEN s
    ELSE IF s.thread = "none" THEN [s EXCEPT !.blocked = TRUE]
    ELSE [s EXCEPT !.thread = "exited", !.server = "closed",
                   !.listening = FALSE]

\* start(self._handle_device_event)
EvStart ==
    /\ ~srv.blocked
    /\ \E bindOK \in BOOLEAN, threadOK \in BOOLEAN :
          srv' = StartOp(srv, bindOK, threadOK)
    /\ nop' = [NoNotify EXCEPT !.op = "start"]
    /\ EvFrame

\* stop(); the caller does not come back from a shutdown() that waits
EvStop ==
    /\ ~srv.blocked
    /\ srv' = StopOp(srv)
    /\ nop' = [NoNotify EXCEPT
                 !.op = IF StopOp(srv).blocked THEN "stop_blocked" ELSE "stop",
                 !.n = IF nop.op = "stop" THEN Min(MaxStops, nop.n + 1)
                       ELSE 1]
    /\ EvFrame

\* what the body of the registered handler raises
HandlerFaults == {"none", "ValueError", "KeyError"}

\* a device sends NOTIFY to the listening server
DoNotify ==
    /\ srv.listening
    /\ srv.seen < MaxNotify
    /\ \E body \in Bodies, sendOK \in BOOLEAN, hf \in HandlerFaults :
          LET s == DoNotifyOp(srv.callback, body, sendOK, volume_callbacks, hf)
          IN  nop' = [op |-> "notify", body |-> body, sendOK |-> sendOK,
                      hf |-> hf, status |-> s.status, tr |-> s.tr, n |-> 0]
    /\ srv' = [srv EXCEPT !.seen = @ + 1]
    /\ EvFrame

EvNext ==
    \/ EvStart
    \/ EvStop
    \/ DoNotify

EventSpec == EvInit /\ [][EvNext]_vars

\* ---------------------------------------------------- event layer: claims
NKind(kind) == {i \in 1..Len(nop.tr) : nop.tr[i].e = kind}

\* C16: a volume notification received by the server reaches the UI
\* observers: once it is handled, every observer registered with
\* on_volume_change has been called with the percent value of the notified
\* raw volume.
C16_NotificationReachesObservers ==
    (/\ nop.op = "notify"
     /\ nop.body = Body("xml", "text", "volume", "number")
     /\ nop.status = 200
     /\ srv.callback = "controller")
    => Cardinality({i \in NKind("volume_cb") :
                       nop.tr[i].v = RawToPercent(nop.body.raw)})
         = volume_callbacks

\* C18: the endpoint answers 200 to every request unless the transport
\* fails, whatever is wrong with the body.
C18_AlwaysAcknowledged ==
    (nop.op = "notify" /\ nop.sendOK) => nop.status = 200

\* C19: a well-formed body without a LastChange element is answered 200 and
\* neither the registered handler nor a volume observer is called for it.
C19_NoWrapperNoCallback ==
    (/\ nop.op = "notify"
     /\ nop.body.outer = "xml"
     /\ nop.body.wrapper = "missing"
     /\ nop.sendOK)
    => /\ nop.status = 200
       /\ NKind("handle_device_event") = {}
       /\ NKind("volume_cb") = {}

C19_Witness ==
    /\ nop.op = "notify"
    /\ nop.body = Body("xml", "missing", "no_volume", "absent")
    /\ nop.sendOK
    /\ nop.status = 200
    /\ srv.callback = "controller"
    /\ volume_callbacks > 0

\* ------------------------------- controller: subscriptions and matching
\* the devices of the registry whose stored profile holds a subscription id
Subscribed == {devices[n].dev : n \in {m \in DOMAIN devices : devices[m].prof.sid}}

\* C17: at most one active subscription per device: no operation sends a
\* SUBSCRIBE request that the device accepts to a device whose registered
\* profile already holds a subscription id from an accepted request.
C17_OneSubscriptionPerDevice ==
    [][\A i \in 1..Len(fx') :
         (fx'[i].e = "SUBSCRIBE" /\ fx'[i].b = "T")
           => fx'[i].a \notin Subscribed]_vars

\* the matcher chain and the predicate of each of its classes
DEVICE_PROFILES == <<"Denon", "Sonos", "Yamaha">>
Matches(cls, d) ==
    CASE cls = "Denon" -> DenonMatches(d)
      [] cls = "Sonos" -> IsSonos(d)
      [] OTHER         -> IsYamaha(d)
\* the classes whose predicate accepts the device, as positions of the chain
MatchingAt(d) ==
    {i \in 1..Len(DEVICE_PROFILES) : Matches(DEVICE_PROFILES[i], d)}
\* the class of the lowest such position, None when there is none
FirstMatch(d) ==
    IF MatchingAt(d) = {} THEN None
    ELSE DEVICE_PROFILES[CHOOSE i \in MatchingAt(d) :
                            \A j \in MatchingAt(d) : i <= j]
HasMatch(d) == FirstMatch(d) # None

\* the list a logged discovery returned
Discovered(f) ==
    CHOOSE q \in Passes \ {DiscoverRaises} : PassName(q) = f[1].a

\* C20: matching is priority-ordered and an unmatched device is skipped:
\* after refresh_devices() over a discovered list, the devices registered by
\* the pass are exactly the devices of the list that some class of the chain
\* accepts, in the list's order (so the loop went on past every unmatched
\* device); every registered profile is of the first class of the chain that
\* accepts its device; no device that no class accepts is in the registry.
C20_FirstMatchWins ==
    [][(lastOp'.op = "refresh_devices" /\ fx'[1].b = "ok") =>
         LET pass == Discovered(fx')
             hits == SelectSeq(pass, HasMatch)
             regs == Registered(fx')
         IN  /\ Len(regs) = Len(hits)
             /\ \A i \in 1..Len(hits) :
                   regs[i] = E("registered", FriendlyName(hits[i]), hits[i])
             /\ \A n \in DOMAIN devices' :
                   /\ devices'[n].prof.cls = FirstMatch(devices'[n].dev)
                   /\ HasMatch(devices'[n].dev)
             /\ \A i \in 1..Len(pass) :
                   ~HasMatch(pass[i]) =>
                      \A n \in DOMAIN devices' : devices'[n].dev # pass[i]]_vars

\* refresh_devices() met a device no class accepts and then a device that
\* both DenonProfile and SonosProfile accept, and registered the latter with
\* a DenonProfile
C20_Witness ==
    /\ lastOp.op = "refresh_devices"
    /\ fx[1] = E("discover", PassName(<<"D4", "D1">>), "ok")
    /\ Cardinality(MatchingAt("D1")) = 2
    /\ MatchingAt("D4") = {}
    /\ "A" \in DOMAIN devices
    /\ devices["A"].dev = "D1"
    /\ devices["A"].prof.cls = "Denon"

\* ========================================================= exception layer
\* Which calls return and which raise.  A call's outcome is a returned value
\* or an exception; `try ... except Exception` turns an exception of its body
\* into the handler's value.  The faults of one call are the ways the device,
\* the network and the observers fail while it runs.

Ret(v) == [k |-> "ret", v |-> v]
Exc == [k |-> "exc", v |-> "Exception"]
\* try: o  except Exception: return v
Catch(o, v) == IF o.k = "exc" THEN Ret(v) ELSE o
\* o; next   (o's value is not used)
Then(o, next) == IF o.k = "exc" THEN o ELSE next

Faults ==
    [discover : BOOLEAN, found : BOOLEAN, rd : VReadModes, wr : BOOLEAN,
     sub : BOOLEAN, obs : BOOLEAN, av : {"absent", "ok", "raise"}]
Contexts ==
    {c \in [d : Matched, sel : {"none", "name", "dev"}, reg : BOOLEAN,
            last : BOOLEAN] : c.reg \/ (c.sel = "none" /\ ~c.last)}
ClsX(c) == GetDeviceProfile(c.d)
SelectedX(c) == c.sel # "none"

\* get_rendering_control: a str has no services; every failure is caught
RenderingControlX(ref) == ref = "dev"

\* get_volume mutant: no handler around the body
GetVolumeX_NoHandler(cls, ref, f) ==
    IF ~RenderingControlX(ref) THEN Ret("None")
    ELSE CASE f.rd = "raise"   -> Exc
           [] f.rd = "missing" -> Ret("None")
           [] f.rd = "null"    -> Ret("number")
           [] OTHER            -> IF cls = "Denon" THEN Ret("number") ELSE Exc

\* DeviceProfile.get_volume / DenonProfile.get_volume.  The base class calls
\* self._db_to_percent, which no class defines (AttributeError).
GetVolumeX(cls, ref, f) ==
    Catch(IF ~RenderingControlX(ref) THEN Ret("None")
          ELSE CASE f.rd = "raise"   -> Exc
                 [] f.rd = "missing" -> Ret("None")
                 [] f.rd = "null"    -> Ret("number")
                 [] OTHER            -> IF cls = "Denon" THEN Ret("number")
                                        ELSE Exc,
          "None")

\* one observer callback, called inside its own try
CallbackX(f) == Catch(IF f.obs THEN Exc ELSE Ret("None"), "None")
\* UPNPVolumeController._notify_volume_change, _notify_device_change
NotifyVolumeChangeX(f) == Catch(CallbackX(f), "None")
NotifyDeviceChangeX(f) == CallbackX(f)
\* DeviceProfile._notify: the listeners select_device registered
ProfileNotifyX(f) == Catch(NotifyVolumeChangeX(f), "None")

\* DeviceProfile.set_volume
BaseSetVolumeX(ref, f) ==
    Catch(IF RenderingControlX(ref)
          THEN IF f.wr THEN Exc ELSE Ret("T")
          ELSE Ret("F"),
          "F")

\* SonosProfile.set_volume: the handler calls the base class again
SonosSetVolumeX(d, ref, f) ==
    LET body == IF ref = "dev" /\ HasGroup(d)
                THEN IF f.wr THEN Exc ELSE Then(ProfileNotifyX(f), Ret("T"))
                ELSE BaseSetVolumeX(ref, f)
    IN  IF body.k = "exc" THEN BaseSetVolumeX(ref, f) ELSE body

\* the try body of DenonProfile.set_volume: float(None) raises on a null
\* reading
DenonAttemptX(ref, f) ==
    IF ~RenderingControlX(ref) THEN Ret("F")
    ELSE IF f.rd \in {"raise", "null"} THEN Exc
    ELSE IF f.wr THEN Exc
    ELSE Ret("T")

\* DenonProfile.set_volume
RECURSIVE DenonSetVolumeX(_, _, _)
DenonSetVolumeX(ref, f, retries) ==
    LET o == DenonAttemptX(ref, f)
    IN  IF o.k = "ret" THEN o
        ELSE IF retries - 1 > 0 THEN DenonSetVolumeX(ref, f, retries - 1)
        ELSE Ret("F")

SetVolumeX(c, ref, f) ==
    CASE ClsX(c) = "Denon" -> DenonSetVolumeX(ref, f, DenonRetries)
      [] ClsX(c) = "Sonos" -> SonosSetVolumeX(c.d, ref, f)
      [] OTHER             -> BaseSetVolumeX(ref, f)

\* get_volume, then set_volume when there is a value: the fallback of the
\* key handlers and the body of set_volume_relative
ReadThenSetX(c, ref, f, none) ==
    LET cur == GetVolumeX(ClsX(c), ref, f)
    IN  IF cur.k = "exc" THEN cur
        ELSE IF cur.v = "None" THEN Ret(none)
        ELSE SetVolumeX(c, ref, f)

\* DeviceProfile.set_volume_relative
SetVolumeRelativeX(c, ref, f) == Catch(ReadThenSetX(c, ref, f, "F"), "F")

\* DeviceProfile.subscribe_to_events: only DenonProfile has
\* _subscription_timeout; both handlers return None
SubscribeToEventsX(c, ref, f) ==
    Catch(IF ~RenderingControlX(ref) THEN Ret("None")
          ELSE IF ClsX(c) # "Denon" THEN Exc
          ELSE Catch(IF f.sub THEN Exc ELSE Ret("None"), "None"),
          "None")

\* DeviceProfile.play_pause
ProfilePlayPauseX(ref, f) ==
    Catch(IF ref = "dev" /\ f.av # "absent"
          THEN IF f.av = "raise" THEN Exc ELSE Ret("T")
          ELSE Ret("F"),
          "F")

\* profile.toggle_mute: no profile class defines it (AttributeError)
ToggleMuteX == Exc

\* a call's effect: the controller's context afterwards and the outcome
Done(c, o) == [ctx |-> c, out |-> o]

\* UPNPVolumeController.get_current_volume
GetCurrentVolumeX(c, f) ==
    IF SelectedX(c) THEN GetVolumeX(ClsX(c), c.sel, f) ELSE Ret("None")

\* UPNPVolumeController.set_volume
ControllerSetVolumeX(c, f) ==
    IF SelectedX(c) THEN SetVolumeX(c, c.sel, f) ELSE Ret("F")

\* UPNPVolumeController.play_pause
PlayPauseX(c, f) ==
    IF SelectedX(c) THEN ProfilePlayPauseX(c.sel, f) ELSE Ret("F")

\* UPNPVolumeController.refresh_devices
RefreshX(c, f) ==
    LET loop == Catch(Then(Ret(ClsX(c)), SubscribeToEventsX(c, "dev", f)),
                      "None")
        out  == Catch(IF f.discover THEN Exc
                      ELSE IF f.found THEN Then(loop, Ret("None"))
                      ELSE Ret("None"),
                      "None")
        hit  == ~f.discover /\ f.found
    IN  Done(IF hit
             THEN [c EXCEPT !.reg = TRUE,
                            !.sel = IF @ = "none" THEN "name" ELSE @]
             ELSE c,
             out)

\* UPNPVolumeController._ensure_device_connected
EnsureDeviceConnectedX(c, f) ==
    IF SelectedX(c) THEN Done(c, Ret("T"))
    ELSE LET r == RefreshX(c, f)
         IN  Done(r.ctx,
                  Catch(Then(r.out, IF SelectedX(r.ctx) THEN Ret("T")
                                    ELSE Ret("F")),
                        "F"))

\* UPNPVolumeController.select_device
SelectDeviceX(c, known, f) ==
    IF known /\ c.reg
    THEN Done([c EXCEPT !.sel = "dev"],
              Then(SubscribeToEventsX(c, "dev", f),
                   Then(NotifyDeviceChangeX(f), Ret("T"))))
    ELSE Done(c, Ret("F"))

\* UPNPVolumeController.volume_up
VolumeUpX(c, f) ==
    LET cur == GetCurrentVolumeX(c, f)
        set == SetVolumeX(c, c.sel, f)
        inner == Catch(IF set.k = "exc" THEN set
                       ELSE IF set.v = "T"
                       THEN Then(NotifyVolumeChangeX(f), Ret("T"))
                       ELSE Ret("F"),
                       "F")
    IN  Catch(IF ~SelectedX(c) THEN Ret("F")
              ELSE IF cur.k = "exc" THEN cur
              ELSE IF cur.v = "None" THEN Ret("F")
              ELSE inner,
              "F")

\* UPNPVolumeController.volume_down.  The interpreter raises RecursionError
\* when the calls nest too deep; every frame's outer handler catches it.
RECURSIVE VolumeDownX(_, _, _)
VolumeDownX(c, f, depth) ==
    IF depth = 0 THEN Done(c, Exc)
    ELSE
    LET e1    == EnsureDeviceConnectedX(c, f)
        c1    == e1.ctx
        cur   == GetCurrentVolumeX(c1, f)
        set   == SetVolumeX(c1, c1.sel, f)
        e2    == EnsureDeviceConnectedX(c1, f)
        again == IF e2.out.k = "exc" THEN e2
                 ELSE IF e2.out.v = "F" THEN Done(e2.ctx, Ret("F"))
                 ELSE VolumeDownX(e2.ctx, f, depth - 1)
        tried == IF set.k = "exc" THEN again
                 ELSE IF set.v = "T"
                 THEN IF NotifyVolumeChangeX(f).k = "exc" THEN again
                      ELSE Done(c1, Ret("T"))
                 ELSE again
        body  == IF e1.out.k = "exc" THEN e1
                 ELSE IF e1.out.v = "F" THEN Done(c1, Ret("F"))
                 ELSE IF cur.k = "exc" THEN Done(c1, cur)
                 ELSE IF cur.v = "None" THEN Done(c1, Ret("F"))
                 ELSE tried
    IN  Done(body.ctx, Catch(body.out, "F"))

\* handle_volume_up / handle_volume_down, the last used device first: "next"
\* stands for falling through to the rest of the handler
LastUsedFirstX(c, f) ==
    LET rel == Catch(SetVolumeRelativeX(c, "dev", f), "F")
        set == ReadThenSetX(c, "dev", f, "next")
    IN  IF ~(c.last /\ c.reg) THEN Ret("next")
        ELSE IF rel.v = "T" THEN Ret("T")
        ELSE IF set.k = "exc" THEN set
        ELSE IF set.v = "T" THEN Ret("T")
        ELSE Ret("next")

\* handle_volume_up / handle_volume_down, the loop over self.devices
OtherDevicesX(c, f) ==
    LET rel  == SetVolumeRelativeX(c, "dev", f)
        back == Catch(ReadThenSetX(c, "dev", f, "next"), "next")
    IN  IF ~c.reg THEN Ret("F")
        ELSE IF rel.k = "exc"
        THEN IF back.v = "T" THEN Ret("T") ELSE Ret("F")
        ELSE IF rel.v = "T" THEN Ret("T")
        ELSE Ret("F")

\* UPNPVolumeController.handle_volume_up / handle_volume_down
HandleVolumeX(c, f) ==
    LET first == LastUsedFirstX(c, f)
        r     == IF c.reg THEN Done(c, Ret("None")) ELSE RefreshX(c, f)
        rest  == Then(r.out, OtherDevicesX(r.ctx, f))
    IN  IF first.k = "ret" /\ first.v = "next"
        THEN Done([r.ctx EXCEPT !.last = @ \/ (rest.k = "ret" /\ rest.v = "T")],
                  Catch(rest, "F"))
        ELSE Done(c, Catch(first, "F"))

\* UPNPVolumeController.handle_mute_toggle
HandleMuteToggleX(c, f) ==
    Done(c, Catch(IF c.reg THEN ToggleMuteX ELSE Ret("F"), "F"))

\* ---------------------------------------------- exception layer: machine
\* deepest nesting of volume_down calls before RecursionError
RecursionLimit == MaxDepth

ExcFrame ==
    UNCHANGED <<devices, order, current_device, current_profile,
                last_used_device, settings_file, volume_callbacks,
                device_callbacks, lastOp, fx, dv, vop, srv, nop, race, conv,
                disp>>

\* a controller with or without a registered device, a selection and a last
\* used device
ExcInit ==
    /\ xop \in [op : {"idle"}, ctx : Contexts, f : {NoFaults},
                out : {Ret("None")}]
    /\ devices = << >>
    /\ order = <<>>
    /\ current_device = NoRef
    /\ current_profile = NoProfile
    /\ last_used_device = None
    /\ settings_file = None
    /\ volume_callbacks = 0
    /\ device_callbacks = 0
    /\ lastOp = Idle
    /\ fx = <<>>
    /\ dv = NoDevice
    /\ vop = NoVolOp
    /\ srv = NoServer
    /\ nop = NoNotify
    /\ race = NoRace
    /\ conv = NoConv
    /\ disp = NoDisp

XReady == xop.op = "idle"
\* the call `op` ran under the faults f and left r
XCommit(op, f, r) ==
    /\ xop' = [op |-> op, ctx |-> r.ctx, f |-> f, out |-> r.out]
    /\ ExcFrame

\* the caller takes the outcome
ExcReturn ==
    /\ xop.op # "idle"
    /\ xop.out.k = "ret"
    /\ xop' = [xop EXCEPT !.op = "idle", !.f = NoFaults, !.out = Ret("None")]
    /\ ExcFrame

CallVolumeUp ==
    XReady /\ \E f \in Faults :
        XCommit("volume_up", f, Done(xop.ctx, VolumeUpX(xop.ctx, f)))
CallVolumeDown ==
    XReady /\ \E f \in Faults :
        XCommit("volume_down", f, VolumeDownX(xop.ctx, f, RecursionLimit))
CallSetVolume ==
    XReady /\ \E f \in Faults :
        XCommit("set_volume", f,
                Done(xop.ctx, ControllerSetVolumeX(xop.ctx, f)))
CallPlayPause ==
    XReady /\ \E f \in Faults :
        XCommit("play_pause", f, Done(xop.ctx, PlayPauseX(xop.ctx, f)))
CallSelectDevice ==
    XReady /\ \E f \in Faults, known \in BOOLEAN :
        XCommit("select_device", f, SelectDeviceX(xop.ctx, known, f))
CallRefreshDevices ==
    XReady /\ \E f \in Faults :
        XCommit("refresh_devices", f, RefreshX(xop.ctx, f))
CallGetCurrentVolume ==
    XReady /\ \E f \in Faults :
        XCommit("get_current_volume", f,
                Done(xop.ctx, GetCurrentVolumeX(xop.ctx, f)))
CallHandleVolumeUp ==
    XReady /\ \E f \in Faults :
        XCommit("handle_volume_up", f, HandleVolumeX(xop.ctx, f))
CallHandleVolumeDown ==
    XReady /\ \E f \in Faults :
        XCommit("handle_volume_down", f, HandleVolumeX(xop.ctx, f))
CallHandleMuteToggle ==
    XReady /\ \E f \in Faults :
        XCommit("handle_mute_toggle", f, HandleMuteToggleX(xop.ctx, f))

ExcNext ==
    \/ ExcReturn
    \/ CallVolumeUp
    \/ CallVolumeDown
    \/ CallSetVolume
    \/ CallPlayPause
    \/ CallSelectDevice
    \/ CallRefreshDevices
    \/ CallGetCurrentVolume
    \/ CallHandleVolumeUp
    \/ CallHandleVolumeDown
    \/ CallHandleMuteToggle

ExcSpec == ExcInit /\ [][ExcNext]_vars

\* ----------------------------------------------- exception layer: claims
BoolOps ==
    {"volume_up", "volume_down", "set_volume", "play_pause", "select_device",
     "handle_volume_up", "handle_volume_down", "handle_mute_toggle"}

\* C21: no call of the controller's interface raises: volume_up,
\* volume_down, set_volume, play_pause, select_device and the three key
\* handlers return True or False, refresh_devices returns None and
\* get_current_volume a number or None, whichever device call fails
\* and whether or not the observers raise.
C21_NothingRaises ==
    xop.op # "idle" =>
       /\ xop.out.k = "ret"
       /\ xop.op \in BoolOps => xop.out.v \in {"T", "F"}
       /\ xop.op = "refresh_devices" => xop.out.v = "None"
       /\ xop.op = "get_current_volume" => xop.out.v \in {"number", "None"}

\* set_volume on a selected device handle whose reads and writes raise, with
\* raising observers: the call returned False
C21_Witness ==
    /\ xop.op = "set_volume"
    /\ xop.ctx.sel = "dev"
    /\ xop.f.rd = "raise"
    /\ xop.f.wr
    /\ xop.f.obs
    /\ xop.out = Ret("F")

\* ============================================================ thread layer
\* Two adjust calls on one Denon device, one from the key listener's thread
\* and one from the UI thread.  A thread can be preempted at every device
\* call; DeviceProfile._volume_lock is created and never acquired, so no
\* step waits for the other thread.

\* the raw values (hundredths) the device may hold when the calls start
RaceStarts == {0, 3000, 4900, 9750, 9800}
AdjustKinds ==
    {"volume_up", "volume_down", "handle_volume_up", "handle_volume_down"}
UpKinds == {"volume_up", "handle_volume_up"}

\* the percent an adjust call asks for after reading `current`
NewVolume(kind, current) ==
    CASE kind = "volume_up"        -> StepUp(current)
      [] kind = "volume_down"      -> StepDown(current)
      [] kind = "handle_volume_up" ->
             Max(0, Min(1000, current + VolumeStep * 10))
      [] OTHER                     ->
             Max(0, Min(1000, current - VolumeStep * 10))

\* SetVolume mutant: the value is computed again from what the device holds
\* when the write arrives
WriteTarget_Fresh(th, stored) ==
    PercentToRaw(NewVolume(th.kind, RawToPercent(stored)))

\* service.SetVolume(DesiredVolume=raw_volume): the device takes the value
\* the thread computed from its own reading
WriteTarget(th, stored) == PercentToRaw(th.new)

NewThread(kind) == [kind |-> kind, pc |-> "call", cur |-> 0, new |-> 0]

RaceFrame ==
    UNCHANGED <<devices, order, current_device, current_profile,
                last_used_device, settings_file, volume_callbacks,
                device_callbacks, lastOp, fx, dv, vop, srv, nop, xop, conv,
                disp>>

\* a Denon device is registered, selected and last used; both calls have
\* been made, neither has reached the device yet
RaceInit ==
    /\ \E s \in RaceStarts, k1 \in AdjustKinds, k2 \in AdjustKinds :
          race = [op |-> "run", start |-> s, stored |-> s,
                  t |-> <<NewThread(k1), NewThread(k2)>>]
    /\ devices = [n \in {FriendlyName("D1")} |->
                    [dev |-> "D1",
                     prof |-> [NewProfile("D1") EXCEPT !.nlisten = 1]]]
    /\ order = <<FriendlyName("D1")>>
    /\ current_device = DevRef("D1")
    /\ current_profile = RegProfile(FriendlyName("D1"))
    /\ last_used_device = FriendlyName("D1")
    /\ settings_file = FriendlyName("D1")
    /\ volume_callbacks = 0
    /\ device_callbacks = 0
    /\ lastOp = Idle
    /\ fx = <<>>
    /\ dv = NoDevice
    /\ vop = NoVolOp
    /\ srv = NoServer
    /\ nop = NoNotify
    /\ xop = NoCall
    /\ conv = NoConv
    /\ disp = NoDisp

\* get_volume: the thread reads the device and computes the new percent
ThreadGetVolume ==
    /\ \E i \in {1, 2} :
          /\ race.t[i].pc = "call"
          /\ race' = [race EXCEPT
                        !.t[i].pc = "read",
                        !.t[i].cur = RawToPercent(race.stored),
                        !.t[i].new = NewVolume(race.t[i].kind,
                                               RawToPercent(race.stored))]
    /\ RaceFrame

\* DenonProfile.set_volume, the reading before the change: the write is
\* skipped when the device is already within 0.1 of the target
ThreadCheck ==
    /\ \E i \in {1, 2} :
          /\ race.t[i].pc = "read"
          /\ race' = [race EXCEPT
                        !.t[i].pc =
                           IF Abs(race.stored - PercentToRaw(race.t[i].new))
                                < 10
                           THEN "done" ELSE "write"]
    /\ RaceFrame

\* DenonProfile.set_volume, service.SetVolume
ThreadSetVolume ==
    /\ \E i \in {1, 2} :
          /\ race.t[i].pc = "write"
          /\ race' = [race EXCEPT
                        !.t[i].pc = "verify",
                        !.stored = WriteTarget(race.t[i], race.stored)]
    /\ RaceFrame

\* DenonProfile.set_volume, the reading after the change; the call returns
ThreadVerify ==
    /\ \E i \in {1, 2} :
          /\ race.t[i].pc = "verify"
          /\ race' = [race EXCEPT !.t[i].pc = "done"]
    /\ RaceFrame

RaceNext ==
    \/ ThreadGetVolume
    \/ ThreadCheck
    \/ ThreadSetVolume
    \/ ThreadVerify

RaceSpec == RaceInit /\ [][RaceNext]_vars

\* ---------------------------------------------------- thread layer: claims
\* what the device holds after one call, and after two calls one after the
\* other
OneStep(kind, raw) == PercentToRaw(NewVolume(kind, RawToPercent(raw)))
TwoSteps(kind, raw) == OneStep(kind, OneStep(kind, raw))
BothDone == race.op = "run" /\ \A i \in {1, 2} : race.t[i].pc = "done"
SameDirection ==
    (race.t[1].kind \in UpKinds) = (race.t[2].kind \in UpKinds)

\* C22: two concurrent adjust calls in the same direction are not atomic:
\* when both have returned the device is one or two steps from where it
\* started, and it is one step away whenever both calls read the same
\* current value (the second update is lost).
C22_LostUpdate ==
    (BothDone /\ SameDirection) =>
       LET k == race.t[1].kind
       IN  /\ race.stored \in {OneStep(k, race.start), TwoSteps(k, race.start)}
           /\ race.t[1].cur = race.t[2].cur
                => race.stored = OneStep(k, race.start)

\* volume_up and handle_volume_up both read the starting value, both
\* returned, and the device is one step up although two steps differ from one
C22_Witness ==
    /\ BothDone
    /\ race.t[1].kind = "volume_up"
    /\ race.t[2].kind = "handle_volume_up"
    /\ race.t[1].cur = RawToPercent(race.start)
    /\ race.t[2].cur = RawToPercent(race.start)
    /\ race.stored = OneStep("volume_up", race.start)
    /\ TwoSteps("volume_up", race.start) # OneStep("volume_up", race.start)

\* ------------------------------------------ event layer: start and stop
\* C23: stop() is idempotent: a stop() on a server that has no server object
\* (never started) and a stop() that follows a stop() which returned both
\* return and leave the server as it was.
C23_StopIdempotent ==
    [][(/\ nop'.op \in {"stop", "stop_blocked"}
        /\ (srv.server = "none" \/ nop.op = "stop"))
          => (nop'.op = "stop" /\ srv' = srv)]_vars

\* a server that was started and served has been stopped twice in a row
C23_Witness ==
    /\ nop.op = "stop"
    /\ nop.n = 2
    /\ srv.server = "closed"
    /\ srv.thread = "exited"
    /\ srv.callback = "controller"
    /\ ~srv.blocked

\* ========================================================= converter layer
\* DenonProfile._raw_to_percent and _percent_to_raw as functions, applied to
\* inputs inside and outside their domains.  Raw inputs lie on a grid of
\* tenths of a raw unit, percent inputs on a grid of tenths of a percent.

\* how many units beyond either end of a domain are tried
OverRange == 5

RawInputs == {10 * k : k \in (-10 * OverRange)..(10 * (MAX_VOL + OverRange))}
PercentInputs == (-10 * OverRange)..(10 * (100 + OverRange))
\* the integer and half-integer raw values of the device's scale
HalfSteps == {50 * k : k \in 0..(2 * MAX_VOL)}

ConvFrame ==
    UNCHANGED <<devices, order, current_device, current_profile,
                last_used_device, settings_file, volume_callbacks,
                device_callbacks, lastOp, fx, dv, vop, srv, nop, xop, race,
                disp>>

\* a Denon profile and a value to convert
ConvInit ==
    /\ conv \in [op : {"idle"}, dom : {"raw"}, x : RawInputs,
                 y : {0}, x2 : {0}, y2 : {0}]
            \cup [op : {"idle"}, dom : {"percent"}, x : PercentInputs,
                  y : {0}, x2 : {0}, y2 : {0}]
    /\ devices = << >>
    /\ order = <<>>
    /\ current_device = NoRef
    /\ current_profile = NoProfile
    /\ last_used_device = None
    /\ settings_file = None
    /\ volume_callbacks = 0
    /\ device_callbacks = 0
    /\ lastOp = Idle
    /\ fx = <<>>
    /\ dv = NoDevice
    /\ vop = NoVolOp
    /\ srv = NoServer
    /\ nop = NoNotify
    /\ xop = NoCall
    /\ race = NoRace
    /\ disp = NoDisp

\* _raw_to_percent(x) and _raw_to_percent of the next raw value of the grid
ApplyRawToPercent ==
    /\ conv.op = "idle"
    /\ conv.dom = "raw"
    /\ conv' = [conv EXCEPT !.op = "raw_to_percent",
                            !.y  = RawToPercent(conv.x),
                            !.x2 = conv.x + 10,
                            !.y2 = RawToPercent(conv.x + 10)]
    /\ ConvFrame

\* _percent_to_raw(x) and _percent_to_raw of the next percent of the grid
ApplyPercentToRaw ==
    /\ conv.op = "idle"
    /\ conv.dom = "percent"
    /\ conv' = [conv EXCEPT !.op = "percent_to_raw",
                            !.y  = PercentToRaw(conv.x),
                            !.x2 = conv.x + 1,
                            !.y2 = PercentToRaw(conv.x + 1)]
    /\ ConvFrame

\* _percent_to_raw(_raw_to_percent(x)) for a raw value of the device's scale
ApplyRoundTrip ==
    /\ conv.op = "idle"
    /\ conv.dom = "raw"
    /\ conv.x \in HalfSteps
    /\ conv' = [conv EXCEPT !.op = "round_trip",
                            !.y  = RawToPercent(conv.x),
                            !.x2 = conv.x,
                            !.y2 = PercentToRaw(RawToPercent(conv.x))]
    /\ ConvFrame

ConvNext ==
    \/ ApplyRawToPercent
    \/ ApplyPercentToRaw
    \/ ApplyRoundTrip

ConvSpec == ConvInit /\ [][ConvNext]_vars

\* ------------------------------------------------- converter layer: claims
\* C24: round trip: for every integer and half-integer raw value in [0, 98],
\* _percent_to_raw(_raw_to_percent(raw)) is within 0.5 raw units of raw.
C24_RoundTrip ==
    conv.op = "round_trip" => Abs(conv.y2 - conv.x) <= 50

\* the round trip of the half-integer raw value 49.5 has been computed
C24_Witness ==
    /\ conv.op = "round_trip"
    /\ conv.x = 4950
    /\ conv.y = RawToPercent(4950)
    /\ conv.y > 0
    /\ conv.y2 = PercentToRaw(conv.y)

\* C25: both converters are monotonic non-decreasing (the value of the next
\* grid point is never smaller), an input outside the domain maps like the
\* nearest end of the domain, and the results stay in [0, 100] percent and
\* [0, 98] raw.
C25_MonotonicAndClamped ==
    /\ conv.op = "raw_to_percent" =>
          /\ conv.y <= conv.y2
          /\ conv.y \in 0..1000
          /\ conv.x < 0 => conv.y = RawToPercent(0)
          /\ conv.x > MAX_VOL * 100 => conv.y = RawToPercent(MAX_VOL * 100)
    /\ conv.op = "percent_to_raw" =>
          /\ conv.y <= conv.y2
          /\ conv.y \in 0..(MAX_VOL * 100)
          /\ conv.x < 0 => conv.y = PercentToRaw(0)
          /\ conv.x > 1000 => conv.y = PercentToRaw(1000)

\* a raw value above 98 has been converted and came out as 100 percent
C25_Witness ==
    /\ conv.op = "raw_to_percent"
    /\ conv.x > MAX_VOL * 100
    /\ conv.y = 1000
    /\ RawToPercent(MAX_VOL * 100) = 1000
    /\ RawToPercent(0) = 0

\* C26: once refresh_devices has registered a device, the notification
\* listener has been started with the controller's event handler and is
\* running, and it stays so.
C26_ListenerRunsOnceRegistered ==
    DOMAIN devices # {} => (srv.listening /\ srv.callback = "controller")

\* ------------------------------------------- volume layer: further claims
\* the SetVolume invocations of the last operation that did not raise
VWritesOK == {i \in VKind("SetVolume") : vop.tr[i].ok}

\* C27: in set_volume, once a SetVolume write has gone through, the reading
\* that follows it is diagnostic only: the call returns success and issues
\* no further write, whatever that reading returns and however it fails.
C27_RereadIsDiagnostic ==
    (vop.op = "set_volume" /\ VProfile.cls = "Denon" /\ VWritesOK # {})
    => /\ vop.res
       /\ \A i \in VWritesOK, j \in VKind("SetVolume") : j <= i

\* raw / max_raw * 100 in tenths of a percent, for a raw value in hundredths
LinearPercent(cls, raw) == (raw * 10) \div MaxVolume(cls)

\* C28: get_volume of a linear-scale profile (generic, Sonos, Yamaha) on a
\* reachable device that answers GetVolume with the raw value r returns the
\* percent r / max_raw * 100, not None.
C28_LinearGetVolume ==
    (/\ vop.op = "get_volume"
     /\ VProfile.cls \in {"Sonos", "Yamaha"}
     /\ vop.env.rd = "ok")
    => /\ vop.res
       /\ vop.tr[1].v = LinearPercent(VProfile.cls, dv.stored)

\* C29: get_volume yields 0, not None, when the reading is null and when
\* the response lacks the CurrentVolume field, and set_volume still works on
\* a device that answers its reads like that.
C29_MissingReadingIsZero ==
    vop.env.rd \in {"null", "missing"}
    => /\ vop.op = "get_volume" => (vop.res /\ vop.tr[1].v = 0)
       /\ (vop.op = "set_volume" /\ vop.env.wf = 0 /\ ~vop.env.vf)
             => vop.res


\* ------------------------------------------- event layer: handler calls
\* the notifications whose LastChange text holds a Volume element that
\* float() accepts (a missing val attribute reads as '0')
CarriesVolume(body) ==
    /\ body.outer = "xml"
    /\ body.wrapper = "text"
    /\ body.inner = "volume"
    /\ body.val # "text"
\* the handler call precedes every send_response call of the request
CalledBeforeAck ==
    \A i \in NKind("handle_device_event"), j \in NKind("send_response") : i < j

HandlerFailed ==
    /\ nop.op = "notify"
    /\ nop.hf # "none"
    /\ NKind("handle_device_event") # {}

\* C31: an exception raised inside the registered handler is caught and
\* logged by the handler: the request is still answered 200 (when the
\* response can be sent), the server keeps listening, and the notification
\* that follows is dispatched as usual (one handler call and 200 for a
\* numeric Volume).
C31_HandlerFailureContained ==
    /\ [](HandlerFailed
            => /\ NKind("handler_error_logged") # {}
               /\ nop.sendOK => nop.status = 200
               /\ srv.listening /\ srv.thread = "serving" /\ ~srv.blocked)
    /\ [][(/\ HandlerFailed
           /\ nop'.op = "notify"
           /\ nop'.hf = "none"
           /\ nop'.sendOK
           /\ CarriesVolume(nop'.body))
          => /\ nop'.status = 200
             /\ nop'.tr = <<N("handle_device_event", nop'.body.raw),
                            N("send_response", 200)>>]_vars

C31_Witness ==
    /\ nop.op = "notify"
    /\ nop.hf = "KeyError"
    /\ srv.seen = MaxNotify
    /\ nop.tr = <<N("handle_device_event", 4900),
                  N("handler_error_logged", 0), N("send_response", 200)>>
    /\ nop.status = 200
    /\ srv.listening

\* ========================================================= dispatch layer
\* DenonProfile._handle_event, DeviceProfile._notify and the controller's
\* observer fan-out as functions of one event, the listeners registered on
\* the profile and the observers registered on the controller.  A listener
\* registration is "controller" (the three lambdas select_device registers)
\* or "raises" (listeners of another client of on_event that raise); an
\* observer is "ok" or "raises".  Values are integers: percent in tenths,
\* power 1 (ON) or 0, input 1.

\* most listener registrations on a profile, most observers of one kind
MaxCallees == 2

D(e, i, v) == [e |-> e, i |-> i, v |-> v]
Callees(S) == UNION {[1..n -> S] : n \in 0..MaxCallees}

\* observer call mutant: no try/except around the call
CallObserver_NoTry(tr, kind, cb, i, v) ==
    [tr |-> Append(tr, D(kind, i, v)), exc |-> cb = "raises"]

\* one pass of the loop body `try: callback(...) except Exception: log` of
\* _notify_volume_change and _notify_device_change
CallObserver(tr, kind, cb, i, v) ==
    [tr |-> IF cb = "raises"
            THEN tr \o <<D(kind, i, v), D("observer_error_logged", i, 0)>>
            ELSE Append(tr, D(kind, i, v)),
     exc |-> FALSE]

\* `for callback in callbacks:` from position i on; an exception that
\* leaves the loop body ends the loop
RECURSIVE FanOut(_, _, _, _, _)
FanOut(tr, kind, cbs, i, v) ==
    IF i > Len(cbs) THEN [tr |-> tr, exc |-> FALSE]
    ELSE LET c == CallObserver(tr, kind, cbs[i], i, v)
         IN  IF c.exc THEN c ELSE FanOut(c.tr, kind, cbs, i + 1, v)

\* UPNPVolumeController._notify_volume_change: the outer handler logs what
\* leaves the loop
NotifyVolumeChangeD(tr, obs, v) ==
    LET f == FanOut(tr, "volume_observer", obs, 1, v)
    IN  IF f.exc THEN Append(f.tr, D("observer_error_logged", 0, 0)) ELSE f.tr

\* UPNPVolumeController._notify_device_change: no outer handler
NotifyDeviceChangeD(tr, obs) == FanOut(tr, "device_observer", obs, 1, 0)

\* listener call mutant: no try/except around the call in _notify
CallListener_NoTry(tr, type, l, i, obs, v) ==
    IF l = "raises" THEN [tr |-> Append(tr, D(type, i, v)), exc |-> TRUE]
    ELSE [tr |-> IF type = "volume_changed"
                 THEN NotifyVolumeChangeD(Append(tr, D(type, i, v)), obs, v)
                 ELSE tr \o <<D(type, i, v), D("log_info", i, v)>>,
          exc |-> FALSE]

\* one pass of the loop body of DeviceProfile._notify: the listener is
\* called with DeviceEvent(type, value); the controller's volume listener
\* calls _notify_volume_change(event.value), its two others log
CallListener(tr, type, l, i, obs, v) ==
    LET t1 == Append(tr, D(type, i, v))
    IN  [tr |-> IF l = "raises"
                THEN Append(t1, D("callback_error_logged", i, 0))
                ELSE IF type = "volume_changed"
                THEN NotifyVolumeChangeD(t1, obs, v)
                ELSE Append(t1, D("log_info", i, v)),
         exc |-> FALSE]

\* DeviceProfile._notify from listener i on
RECURSIVE ProfileNotifyD(_, _, _, _, _, _)
ProfileNotifyD(tr, type, ls, i, obs, v) ==
    IF i > Len(ls) THEN [tr |-> tr, exc |-> FALSE]
    ELSE LET c == CallListener(tr, type, ls[i], i, obs, v)
         IN  IF c.exc THEN c ELSE ProfileNotifyD(c.tr, type, ls, i + 1, obs, v)

\* DenonProfile._handle_event for an event with a LastChange mapping: vol is
\* "absent", "number" (raw, in hundredths) or "text" (float() raises),
\* power is "absent", "ON" or "OFF", input is "absent" or "CD".  What leaves
\* a _notify call is caught by the outer handler, which ends the processing.
HandleEventD(ls, obs, vol, raw, power, input) ==
    LET failed(t) == Append(t, D("handle_event_error_logged", 0, 0))
        a == IF vol = "number"
             THEN ProfileNotifyD(<<>>, "volume_changed", ls, 1, obs,
                                 RawToPercent(raw))
             ELSE IF vol = "text"
             THEN [tr |-> <<D("parse_error_logged", 0, 0)>>, exc |-> FALSE]
             ELSE [tr |-> <<>>, exc |-> FALSE]
        b == IF power = "absent" THEN a
             ELSE ProfileNotifyD(a.tr, "power_changed", ls, 1, obs,
                                 IF power = "ON" THEN 1 ELSE 0)
        c == IF input = "absent" THEN b
             ELSE ProfileNotifyD(b.tr, "input_changed", ls, 1, obs, 1)
    IN  IF a.exc THEN failed(a.tr)
        ELSE IF b.exc THEN failed(b.tr)
        ELSE IF c.exc THEN failed(c.tr)
        ELSE c.tr

DispFrame ==
    UNCHANGED <<devices, order, current_device, current_profile,
                last_used_device, settings_file, volume_callbacks,
                device_callbacks, lastOp, fx, dv, vop, srv, nop, xop, race,
                conv>>

\* nothing has been dispatched
DispInit ==
    /\ disp = NoDisp
    /\ devices = << >>
    /\ order = <<>>
    /\ current_device = NoRef
    /\ current_profile = NoProfile
    /\ last_used_device = None
    /\ settings_file = None
    /\ volume_callbacks = 0
    /\ device_callbacks = 0
    /\ lastOp = Idle
    /\ fx = <<>>
    /\ dv = NoDevice
    /\ vop = NoVolOp
    /\ srv = NoServer
    /\ nop = NoNotify
    /\ xop = NoCall
    /\ race = NoRace
    /\ conv = NoConv

EventRaws == {0, 4900, 9800, 12000}

\* profile._handle_event(event)
DispHandleEvent ==
    /\ disp.op = "idle"
    /\ \E ls \in Callees({"controller", "raises"}),
          obs \in Callees({"ok", "raises"}),
          vol \in {"absent", "number", "text"}, raw \in EventRaws,
          power \in {"absent", "ON", "OFF"}, input \in {"absent", "CD"} :
          /\ vol # "number" => raw = 0
          /\ disp' = [op |-> "handle_event", ls |-> ls, obs |-> obs,
                      vol |-> vol, raw |-> raw, power |-> power,
                      input |-> input, ret |-> FALSE,
                      tr |-> HandleEventD(ls, obs, vol, raw, power, input)]
    /\ DispFrame

\* volume_up / volume_down after a successful set_volume:
\* self._notify_volume_change(new_volume); return True
DispVolumeChange ==
    /\ disp.op = "idle"
    /\ \E obs \in Callees({"ok", "raises"}), v \in {0, 500, 1000} :
          disp' = [NoDisp EXCEPT !.op = "volume_change", !.obs = obs,
                                 !.raw = v, !.ret = TRUE,
                                 !.tr = NotifyVolumeChangeD(<<>>, obs, v)]
    /\ DispFrame

\* select_device on a registered name: self._notify_device_change();
\* return True.  What leaves the fan-out leaves select_device.
DispDeviceChange ==
    /\ disp.op = "idle"
    /\ \E obs \in Callees({"ok", "raises"}) :
          LET f == NotifyDeviceChangeD(<<>>, obs)
          IN  disp' = [NoDisp EXCEPT
                         !.op = IF f.exc THEN "device_change_raised"
                                ELSE "device_change",
                         !.obs = obs, !.ret = ~f.exc, !.tr = f.tr]
    /\ DispFrame

\* the caller takes the result
DispReturn ==
    /\ disp.op # "idle"
    /\ disp' = NoDisp
    /\ DispFrame

DispNext ==
    \/ DispHandleEvent
    \/ DispVolumeChange
    \/ DispDeviceChange
    \/ DispReturn

DispSpec == DispInit /\ [][DispNext]_vars

\* ------------------------------------------------ dispatch layer: claims
\* how many times callee i was called with this kind of event and value
DCount(e, i, v) ==
    Cardinality({k \in 1..Len(disp.tr) : disp.tr[k] = D(e, i, v)})
DKind(e) == {k \in 1..Len(disp.tr) : disp.tr[k].e = e}

\* C32: _handle_event treats each field on its own: a volume value that
\* float() rejects is logged and no volume_changed is dispatched, while the
\* power and input fields of the same event reach every registered
\* listener; a numeric volume reaches every listener as the percent value of
\* the raw one; a listener that raises does not keep the listeners after it
\* from being called.
C32_FieldsIndependent ==
    disp.op = "handle_event"
    => /\ disp.vol = "text"
            => (DKind("volume_changed") = {} /\ DKind("parse_error_logged") # {})
       /\ disp.vol = "number"
            => \A i \in 1..Len(disp.ls) :
                  /\ DCount("volume_changed", i, RawToPercent(disp.raw)) = 1
                  /\ Cardinality(DKind("volume_changed")) = Len(disp.ls)
       /\ disp.power # "absent"
            => \A i \in 1..Len(disp.ls) :
                  DCount("power_changed", i,
                         IF disp.power = "ON" THEN 1 ELSE 0) = 1
       /\ disp.input # "absent"
            => \A i \in 1..Len(disp.ls) : DCount("input_changed", i, 1) = 1

\* an event with an unparsable volume, power and input, on a profile whose
\* first listener raises: the second listener got power and input
C32_Witness ==
    /\ disp.op = "handle_event"
    /\ disp.vol = "text"
    /\ disp.power = "ON"
    /\ disp.input = "CD"
    /\ disp.ls = <<"raises", "controller">>
    /\ disp.tr = <<D("parse_error_logged", 0, 0),
                   D("power_changed", 1, 1), D("callback_error_logged", 1, 0),
                   D("power_changed", 2, 1), D("log_info", 2, 1),
                   D("input_changed", 1, 1), D("callback_error_logged", 1, 0),
                   D("input_changed", 2, 1), D("log_info", 2, 1)>>

\* ------------------------------------------- volume layer: Sonos set_volume
\* C33: SonosProfile.set_volume sends SetGroupVolume when the device has
\* GroupRenderingControl and then no SetVolume; without that service no
\* SetGroupVolume is sent, and without it or after a SetGroupVolume that
\* raised the call is DeviceProfile.set_volume: one SetVolume, whose outcome
\* is the result.
C33_GroupThenFallback ==
    (vop.op = "set_volume" /\ VProfile.cls = "Sonos")
    => LET group == VKind("SetGroupVolume")
           single == VKind("SetVolume")
           fallback == /\ Cardinality(single) = 1
                       /\ \A i \in single :
                             /\ vop.tr[i].v = vop.arg
                             /\ vop.tr[i].ok = vop.res
                             /\ \A g \in group : g < i
       IN  /\ HasGroup(dv.d) => Cardinality(group) = 1
           /\ ~HasGroup(dv.d) => (group = {} /\ fallback)
           /\ \A g \in group :
                 /\ vop.tr[g].v = vop.arg
                 /\ vop.tr[g].ok => (single = {} /\ vop.res)
                 /\ ~vop.tr[g].ok => fallback

\* the group command raised and the per-device write went through
C33_Witness ==
    /\ vop.op = "set_volume"
    /\ dv.d = "D2"
    /\ vop.arg = 500
    /\ vop.res
    /\ VKind("SetGroupVolume") # {}
    /\ \E i \in VKind("SetVolume") : vop.tr[i].ok

\* ---------------------------------------------- controller: the selection
\* C34: whenever a device is selected, current_device is the Device handle
\* of a registry entry, whether refresh_devices or select_device made the
\* selection, so that the profile finds the device's RenderingControl.
C34_SelectionIsRegisteredHandle ==
    current_device # NoRef
    => /\ current_device.k = "dev"
       /\ \E n \in DOMAIN devices : devices[n].dev = current_device.v

\* ------------------------------------------- volume layer: handle_volume
\* the values of the writes the device accepted during the operation
VApplied ==
    {vop.tr[i].v : i \in {j \in VWrites : vop.tr[j].ok}}

\* C35: one handle_volume_up() or handle_volume_down() call applies the
\* 2-percent step at most once: all writes the device accepts during the
\* call carry the same target value, whatever reads and writes fail.
C35_OneStepPerKeyPress ==
    vop.op \in {"handle_volume_up", "handle_volume_down"}
    => Cardinality(VApplied) <= 1

\* ------------------------------------------ controller: profile listeners
\* the key-press operation ended with a group command that device d took
GroupDispatchOn(d) ==
    /\ lastOp.op = "handle_volume"
    /\ fx # <<>>
    /\ \E i \in 1..Len(fx) : fx[i] = E("SetGroupVolume", d, "ok")

\* C36: however often select_device ran, a volume_changed event that the
\* current profile (the registry's instance for the selected device)
\* dispatches after SonosProfile.set_volume's group command calls every
\* on_volume_change observer exactly once.
C36_OneCallPerObserver ==
    \A d \in Devs :
       (/\ GroupDispatchOn(d)
        /\ current_device = DevRef(d)
        /\ current_profile = RegProfile(FriendlyName(d)))
       => NumEv(fx, "volume_cb") = volume_callbacks

\* C37: a volume_changed event dispatched by the profile of a device that
\* is not (or no longer) the selected one calls no on_volume_change observer.
C37_OnlyCurrentProfileNotifies ==
    \A d \in Devs :
       (GroupDispatchOn(d) /\ current_device.k = "dev"
                           /\ current_device # DevRef(d))
       => NumEv(fx, "volume_cb") = 0

\* ------------------------------------- controller: refresh and selection
\* the profile instance a profile reference denotes in a registry
ProfileOf(cp, devs) == IF cp.k = "reg" THEN devs[cp.n].prof ELSE cp.p

\* C38: refresh_devices() leaves an existing selection alone: with a device
\* selected before the call, current_device and the profile instance
\* current_profile denotes are the same afterwards, whatever the discovery
\* pass returned, and no device observer is called.
C38_RefreshKeepsSelection ==
    [][(lastOp'.op = "refresh_devices" /\ current_device # NoRef)
       => /\ current_device' = current_device
          /\ ProfileOf(current_profile', devices')
               = ProfileOf(current_profile, devices)
          /\ NumEv(fx', "device_cb") = 0]_vars

\* a refresh that found the selected device again (the registry now holds a
\* new profile instance for it) and one more device, observers registered
C38_Witness ==
    /\ lastOp.op = "refresh_devices"
    /\ current_device.k = "dev"
    /\ current_profile.k = "own"
    /\ current_profile.p.nlisten > 0
    /\ Cardinality(DOMAIN devices) = 2
    /\ NumEv(fx, "registered") = 2
    /\ device_callbacks > 0

\* C39: a registered device whose manufacturer or friendly name says Sonos
\* (Yamaha) carries the Sonos (Yamaha) profile, also when RenderingControl
\* is among the device's own services.
C39_NamedVariantGetsItsProfile ==
    \A n \in DOMAIN devices :
       /\ IsSonos(devices[n].dev) => devices[n].prof.cls = "Sonos"
       /\ (IsYamaha(devices[n].dev) /\ ~IsSonos(devices[n].dev))
             => devices[n].prof.cls = "Yamaha"


\* -------------------------------------------- dispatch layer: observer fan-out
\* the observer calls of the trace, in the order they were made
DCalls(kind) ==
    SelectSeq(disp.tr, LAMBDA x : x.e = kind)

\* C40: _notify_volume_change and _notify_device_change call every
\* registered observer exactly once, in registration order and with the
\* same value, whichever of them raise, and volume_up / select_device
\* still return True.
C40_FanOutIsolating ==
    /\ disp.op = "volume_change"
          => /\ DCalls("volume_observer")
                  = [i \in 1..Len(disp.obs) |->
                        D("volume_observer", i, disp.raw)]
             /\ disp.ret
    /\ disp.op = "device_change"
          => /\ DCalls("device_observer")
                  = [i \in 1..Len(disp.obs) |-> D("device_observer", i, 0)]
             /\ disp.ret
    /\ disp.op # "device_change_raised"

\* the first volume observer raised and the second one was still called
C40_Witness ==
    /\ disp.op = "volume_change"
    /\ disp.obs = <<"raises", "ok">>
    /\ disp.raw = 500
    /\ disp.ret
    /\ disp.tr = <<D("volume_observer", 1, 500),
                   D("observer_error_logged", 1, 0),
                   D("volume_observer", 2, 500)>>

====
